---- MODULE Spec2Model ----
(***************************************************************************)
(* Employee reconciliation between the relational source (PostgreSQL) and  *)
(* the ledger (Airtable): identity matching, update planning and the       *)
(* rate-limited apply loop of the sync variants of this repository.        *)
(*                                                                         *)
(* JavaScript strings are sequences of one-character strings, so that      *)
(* toLowerCase and the digit filter of standardizePhoneNumber are computed *)
(* character by character.  null and undefined are the two reserved        *)
(* one-element sequences Null and Undefined.                               *)
(***************************************************************************)
EXTENDS Integers, Sequences, FiniteSets, TLC

VARIABLES
    job,              \* which operation this behaviour runs
    pc,               \* position inside the running operation
    newEmployee,      \* findExistingRecord: the source entity looked up
    ledger,           \* the Ledger Store: records in fetch order
    result,           \* findExistingRecord: { match, matchReason }
    pgRows,           \* what the Source Store returns for this pass's query
    tz,               \* sign of the process's local time-zone offset from UTC
    airtableRecords,  \* the ledger snapshot the pass loaded
    updates,          \* the plans the pass generated, in order
    cursor,           \* index of the next plan of the apply loop
    successCount,     \* plans the pass counted as succeeded
    errors,           \* record ids the pass pushed to its errors list
    writes,           \* every update call issued to the ledger, in order
    matched,          \* (record position, source row) pairs the pass matched
    pass,             \* number of the pass being run
    rate,             \* the pacing of the write calls: see Paced
    retries           \* fetchAirtableRecords: the attempts that have failed

vars == <<job, pc, newEmployee, ledger, result, pgRows, tz, airtableRecords,
          updates, cursor, successCount, errors, writes, matched, pass, rate,
          retries>>

----------------------------------------------------------------------------
(* JavaScript values *)

Null == <<"null">>
Undefined == <<"undefined">>

Truthy(s) == s # Null /\ s # Undefined /\ s # <<>>

DigitChars == <<"0", "1", "2", "3", "4", "5", "6", "7", "8", "9">>

IsDigit(c) == \E i \in 1..10 : DigitChars[i] = c

LowerChar(c) ==
    CASE c = "A" -> "a"
      [] c = "C" -> "c"
      [] c = "J" -> "j"
      [] c = "O" -> "o"
      [] c = "X" -> "x"
      [] OTHER -> c

toLowerCase(s) == [i \in 1..Len(s) |-> LowerChar(s[i])]

\* x?.toLowerCase(): undefined and null short-circuit to undefined
OptLower(s) == IF s = Null \/ s = Undefined THEN Undefined ELSE toLowerCase(s)

RECURSIVE NatToString(_)
NatToString(n) ==
    IF n < 10 THEN <<DigitChars[n + 1]>>
    ELSE NatToString(n \div 10) \o <<DigitChars[(n % 10) + 1]>>

----------------------------------------------------------------------------
(* Normalizer *)

PhoneDigits == 10

standardizePhoneNumber(phone) ==
    IF ~Truthy(phone) THEN Null
    ELSE LET digits == SelectSeq(phone, IsDigit)
         IN  IF Len(digits) <= PhoneDigits THEN digits
             ELSE SubSeq(digits, Len(digits) - PhoneDigits + 1, Len(digits))

----------------------------------------------------------------------------
(* Sample field values *)

EmailLower == <<"a", "@", "x", ".", "c">>
EmailUpper == <<"A", "@", "X", ".", "C">>
NameLower == <<"j", "o">>
NameUpper == <<"J", "O">>
NameOther == <<"a", "l">>
PhoneNoDigitsA == <<"n", "/", "a">>
PhoneNoDigitsB == <<"e", "x", "t">>
PhoneLocal == <<"(", "5", "5", "5", ")", "0", "1", "0", "-", "0", "1", "9", "9">>
PhoneIntl == <<"1", "-", "5", "5", "5", "-", "0", "1", "0", "-", "0", "1", "9", "9">>

RecIds == <<"recA", "recB", "recC", "recD", "recE", "recF">>

NullRecord == [id |-> "null", fields |-> [f \in {} |-> Null]]

\* The pacing of the write calls of a pass. hot: a write call has returned and no
\* rate-limit delay has elapsed since. gaps[i]: a delay elapsed between the
\* return of the write before write i and the issue of write i (the first write
\* of a pass has none before it).
NoRate == [hot |-> FALSE, gaps |-> <<>>]

Paced(r, delayBefore, delayAfter) ==
    [hot |-> ~delayAfter, gaps |-> Append(r.gaps, delayBefore \/ ~r.hot)]

\* Sequences over S of length 0..n
RECURSIVE SeqsUpTo(_, _)
SeqsUpTo(S, n) ==
    IF n = 0 THEN {<<>>}
    ELSE LET shorter == SeqsUpTo(S, n - 1)
         IN  shorter \cup {Append(s, x) : s \in {t \in shorter : Len(t) = n - 1}, x \in S}

\* The records of a fetched table: position i carries record id RecIds[i]
AsRecords(fieldSeq) == [i \in 1..Len(fieldSeq) |-> [id |-> RecIds[i], fields |-> fieldSeq[i]]]

\* Array.prototype.find over the positions that satisfy the test: the first
\* such position, 0 if there is none
FirstIndex(positions) ==
    IF positions = {} THEN 0
    ELSE CHOOSE i \in positions : \A j \in positions : i <= j

----------------------------------------------------------------------------
(* findExistingRecord *)

MaxFindRecords == 2

FindEmployees ==
    [employee_id : {0, 1}, email : {Null, EmailLower},
     mobile_phone : {Null, PhoneNoDigitsA, PhoneLocal}, name : {Null, NameLower}]

\* The identity fields of a ledger record, keyed by the ledger's field names
IdentityFields(empId, email, phone, name) ==
    ("RSC Emp ID" :> empId) @@ ("Email" :> email) @@ ("Phone" :> phone) @@ ("Name" :> name)

FindFields ==
    {IdentityFields(i, e, p, n) :
        i \in {Undefined, <<"1">>}, e \in {Undefined, EmailUpper},
        p \in {Undefined, PhoneNoDigitsB, PhoneIntl}, n \in {Undefined, NameUpper}}

ById(emp, record) == record.fields["RSC Emp ID"] = NatToString(emp.employee_id)
ByEmail(emp, record) == OptLower(record.fields["Email"]) = toLowerCase(emp.email)
ByPhone(emp, record) ==
    standardizePhoneNumber(emp.mobile_phone) = standardizePhoneNumber(record.fields["Phone"])
ByName(emp, record) == OptLower(record.fields["Name"]) = toLowerCase(emp.name)

Found(records, i, reason) == [match |-> records[i], matchReason |-> reason]

\* A lookup that walks the records once and takes the first record that agrees
\* on any key, whatever the key kind
RecordFirstLookup(emp, records) ==
    LET anyTest(r) ==
            \/ (emp.employee_id # 0 /\ ById(emp, r))
            \/ (Truthy(emp.email) /\ ByEmail(emp, r))
            \/ (Truthy(emp.mobile_phone) /\ ByPhone(emp, r))
            \/ (Truthy(emp.name) /\ ByName(emp, r))
        i == FirstIndex({k \in 1..Len(records) : anyTest(records[k])})
    IN  IF i = 0 THEN [match |-> NullRecord, matchReason |-> "null"]
        ELSE IF emp.employee_id # 0 /\ ById(emp, records[i]) THEN Found(records, i, "RSC Emp ID")
        ELSE IF Truthy(emp.email) /\ ByEmail(emp, records[i]) THEN Found(records, i, "Email")
        ELSE IF Truthy(emp.mobile_phone) /\ ByPhone(emp, records[i]) THEN Found(records, i, "Phone")
        ELSE Found(records, i, "Name")

findExistingRecord(emp, records) ==
    LET all == 1..Len(records)
        byId == IF emp.employee_id # 0
                THEN FirstIndex({i \in all : ById(emp, records[i])}) ELSE 0
        byEmail == IF Truthy(emp.email)
                   THEN FirstIndex({i \in all : ByEmail(emp, records[i])}) ELSE 0
        byPhone == IF Truthy(emp.mobile_phone)
                   THEN FirstIndex({i \in all : ByPhone(emp, records[i])}) ELSE 0
        byName == IF Truthy(emp.name)
                  THEN FirstIndex({i \in all : ByName(emp, records[i])}) ELSE 0
    IN  IF byId # 0 THEN Found(records, byId, "RSC Emp ID")
        ELSE IF byEmail # 0 THEN Found(records, byEmail, "Email")
        ELSE IF byPhone # 0 THEN Found(records, byPhone, "Phone")
        ELSE IF byName # 0 THEN Found(records, byName, "Name")
        ELSE [match |-> NullRecord, matchReason |-> "null"]

NoResult == [match |-> NullRecord, matchReason |-> "pending"]

NoEmployee == [employee_id |-> 0, email |-> Null, mobile_phone |-> Null, name |-> Null]

Idle ==
    /\ pgRows = <<>>
    /\ tz = 0
    /\ airtableRecords = <<>>
    /\ updates = <<>>
    /\ cursor = 0
    /\ successCount = 0
    /\ errors = <<>>
    /\ writes = <<>>
    /\ matched = {}
    /\ pass = 0
    /\ rate = NoRate
    /\ retries = 0

InitFind ==
    /\ job = "find"
    /\ pc = "call"
    /\ newEmployee \in FindEmployees
    /\ ledger \in {AsRecords(fs) : fs \in SeqsUpTo(FindFields, MaxFindRecords)}
    /\ result = NoResult
    /\ Idle

FindExisting ==
    /\ job = "find"
    /\ pc = "call"
    /\ result' = findExistingRecord(newEmployee, ledger)
    /\ pc' = "returned"
    /\ UNCHANGED <<retries, job, newEmployee, ledger, pgRows, tz, airtableRecords, updates,
                   cursor, successCount, errors, writes, matched, pass, rate>>

NextFind == FindExisting

SpecFind == InitFind /\ [][NextFind]_vars

----------------------------------------------------------------------------
(* Dates: a Date is an instant counted in hours from 2025-01-00T00:00Z, a date *)
(* string is "MM/DD/YYYY" or "YYYY-MM-DD" with a one-digit day of January 2025 *)

NullDate == [valid |-> FALSE, time |-> 0]
DateAt(t) == [valid |-> TRUE, time |-> t]

TimeZones == {-8, 2}

DigitValue(c) == CHOOSE n \in 0..9 : DigitChars[n + 1] = c

UsDate(day) == <<"0", "1", "/", "0", DigitChars[day + 1], "/", "2", "0", "2", "5">>
IsoDate(day) == <<"2", "0", "2", "5", "-", "0", "1", "-", "0", DigitChars[day + 1]>>

IsUsDate(s) == Len(s) = 10 /\ s[3] = "/" /\ s[6] = "/" /\ IsDigit(s[5])
IsIsoDate(s) == Len(s) = 10 /\ s[5] = "-" /\ s[8] = "-" /\ IsDigit(s[10])

\* A DATE column as the driver delivers it: midnight of that day in local time
PgDate(day, z) == DateAt(24 * day - z)

\* new Date(string): a date-only ISO string is UTC midnight, any other form is
\* midnight in local time
NewDate(s, z) ==
    IF IsIsoDate(s) THEN DateAt(24 * DigitValue(s[10]))
    ELSE DateAt(24 * DigitValue(s[5]) - z)

\* date.toISOString().split('T')[0]
toISODate(date) == IsoDate(date.time \div 24)

\* formatDate of the formatters module: MM/DD/YYYY from the local getters
formatDate(date, z) == IF ~date.valid THEN Null ELSE UsDate((date.time + z) \div 24)

----------------------------------------------------------------------------
(* The Ledger Store and the parts every pass shares *)

Active == <<"Active">>
Inactive == <<"Inactive">>
Hired == <<"Hired">>
Separated == <<"Separated">>

\* obj.field of a JavaScript object: undefined when the object has no such field
Prop(obj, field) == IF field \in DOMAIN obj THEN obj[field] ELSE Undefined

\* base(table).update(recordId, fields) when it succeeds: a partial write. A key
\* whose value is undefined is not serialized, a null or '' clears the field (the
\* ledger then returns the record without it), a date is returned as YYYY-MM-DD.
StoredValue(v) ==
    IF v = Null \/ v = <<>> THEN Undefined
    ELSE IF IsUsDate(v) THEN IsoDate(DigitValue(v[5]))
    ELSE v

MergeFields(fields, plan) ==
    [f \in DOMAIN fields |->
        IF f \in DOMAIN plan /\ plan[f] # Undefined THEN StoredValue(plan[f]) ELSE fields[f]]

StoreUpdate(store, recordId, plan) ==
    [i \in 1..Len(store) |->
        IF store[i].id = recordId
        THEN [id |-> recordId, fields |-> MergeFields(store[i].fields, plan)]
        ELSE store[i]]

\* One update call as the store saw it
WriteCall(recordId, plan, ok) == [pass |-> pass, recordId |-> recordId, fields |-> plan, ok |-> ok]

WritesOf(p) == SelectSeq(writes, LAMBDA w : w.pass = p)
RaisedOf(p) == SelectSeq(writes, LAMBDA w : w.pass = p /\ ~w.ok)

MaxPasses == 2

----------------------------------------------------------------------------
(* contact-info.js: matchAndUpdateEmails *)

MaxEmailRows == 2
MaxEmailRecords == 2

\* One row per address (the query keeps rn = 1 of each address partition)
EmailRow(address, id, active) ==
    [address |-> address, emailable_id |-> id,
     mobile_phone |-> (IF id = 1 THEN PhoneLocal ELSE Null),
     active |-> active, created_at |-> id]

EmailRows == {EmailRow(a, i, b) : a \in {EmailLower, EmailUpper}, i \in {1, 2}, b \in BOOLEAN}

EmailRowSeqs ==
    {rows \in SeqsUpTo(EmailRows, MaxEmailRows) :
        \A i, j \in 1..Len(rows) : i # j => rows[i].address # rows[j].address}

ContactFields(empId, email, phone, statusRSPG, status, name) ==
    IdentityFields(empId, email, phone, name)
        @@ ("Status-RSPG" :> statusRSPG) @@ ("Status" :> status)

EmailLedgerFields ==
    {ContactFields(i, e, p, st[1], st[2], n) :
        i \in {Undefined, <<"2">>}, e \in {Undefined, EmailUpper},
        p \in {Undefined, PhoneIntl},
        st \in {<<Active, Hired>>, <<Inactive, Separated>>},
        n \in {Undefined, NameUpper}}

\* pgEmails.reduce(...): the position of the row kept for an address key, 0 if none
RECURSIVE pgEmailMapIndex(_, _, _, _)
pgEmailMapIndex(rows, key, i, acc) ==
    IF i > Len(rows) THEN acc
    ELSE IF toLowerCase(rows[i].address) = key
            /\ (acc = 0 \/ rows[i].created_at > rows[acc].created_at)
         THEN pgEmailMapIndex(rows, key, i + 1, i)
         ELSE pgEmailMapIndex(rows, key, i + 1, acc)

\* pgEmailMap[key] is set
InPgEmailMap(rows, key) == pgEmailMapIndex(rows, key, 1, 0) # 0

\* The entry the reduce stores under a key: it keeps neither a name nor an email
pgEmailMap(rows, key) ==
    LET k == pgEmailMapIndex(rows, key, 1, 0)
    IN  [emailable_id |-> rows[k].emailable_id, mobile_phone |-> rows[k].mobile_phone,
         active |-> rows[k].active, created_at |-> rows[k].created_at]

determineUpdates(airtableFields, pgRecord) ==
    [needsEmpId |-> ~Truthy(airtableFields["RSC Emp ID"]),
     needsPhone |-> ~Truthy(airtableFields["Phone"]) /\ Truthy(Prop(pgRecord, "mobile_phone")),
     needsEmail |-> ~Truthy(airtableFields["Email"]) /\ Truthy(Prop(pgRecord, "email")),
     needsStatusRSPG |->
        airtableFields["Status-RSPG"] # (IF pgRecord.active THEN Active ELSE Inactive),
     needsStatus |->
        airtableFields["Status"] # (IF pgRecord.active THEN Hired ELSE Separated),
     needsName |-> airtableFields["Name"] # Prop(pgRecord, "name")]

AnyUpdate(u) == \E k \in DOMAIN u : u[k]

\* The loop over the ledger snapshot: the match entry of record i, if it has one
EmailMatchOf(records, rows, i) ==
    LET airtableEmail == OptLower(records[i].fields["Email"])
        pgRecord == pgEmailMap(rows, airtableEmail)
    IN  [airtableId |-> records[i].id,
         airtableEmail |-> airtableEmail,
         pgEmployeeId |-> pgRecord.emailable_id,
         pgPhone |-> pgRecord.mobile_phone,
         currentFields |-> records[i].fields,
         updates |-> determineUpdates(records[i].fields, pgRecord),
         isActive |-> pgRecord.active,
         created_at |-> pgRecord.created_at]

EmailMatched(records, rows, i) ==
    /\ Truthy(OptLower(records[i].fields["Email"]))
    /\ InPgEmailMap(rows, OptLower(records[i].fields["Email"]))

RECURSIVE EmailMatches(_, _, _)
EmailMatches(records, rows, i) ==
    IF i > Len(records) THEN <<>>
    ELSE IF EmailMatched(records, rows, i)
            /\ AnyUpdate(EmailMatchOf(records, rows, i).updates)
         THEN <<EmailMatchOf(records, rows, i)>> \o EmailMatches(records, rows, i + 1)
         ELSE EmailMatches(records, rows, i + 1)

\* updateFields as the apply loop of matchAndUpdateEmails builds it
EmailUpdateFields(match) ==
    LET u == match.updates
        keys == {k \in {"RSC Emp ID", "Phone", "Status-RSPG", "Status", "Name"} :
                    \/ (k = "RSC Emp ID" /\ u.needsEmpId)
                    \/ (k = "Phone" /\ u.needsPhone)
                    \/ (k = "Status-RSPG" /\ u.needsStatusRSPG)
                    \/ (k = "Status" /\ u.needsStatus)
                    \/ (k = "Name" /\ u.needsName)}
    IN  [k \in keys |->
            CASE k = "RSC Emp ID" -> NatToString(match.pgEmployeeId)
              [] k = "Phone" -> match.pgPhone
              [] k = "Status-RSPG" -> (IF match.isActive THEN Active ELSE Inactive)
              [] k = "Status" -> (IF match.isActive THEN Hired ELSE Separated)
              [] OTHER -> Prop(match, "name")]

InitEmails ==
    /\ job = "emails"
    /\ pc = "loadSource"
    /\ newEmployee = NoEmployee
    /\ result = NoResult
    /\ pgRows \in EmailRowSeqs
    /\ ledger \in {AsRecords(fs) : fs \in SeqsUpTo(EmailLedgerFields, MaxEmailRecords)}
    /\ tz = 0
    /\ airtableRecords = <<>>
    /\ updates = <<>>
    /\ cursor = 0
    /\ successCount = 0
    /\ errors = <<>>
    /\ writes = <<>>
    /\ matched = {}
    /\ pass = 1
    /\ rate = NoRate
    /\ retries = 0

\* getEmailsFromPostgres(): the rows, or the query raises and the pass rethrows
EmailsLoadSource ==
    /\ job = "emails" /\ pc = "loadSource"
    /\ \/ pc' = "loadLedger"
       \/ pc' = "failed"
    /\ UNCHANGED <<retries, job, newEmployee, ledger, result, pgRows, tz, airtableRecords, updates,
                   cursor, successCount, errors, writes, matched, pass, rate>>

\* base(AIRTABLE_TABLE).select(...).all()
EmailsLoadLedger ==
    /\ job = "emails" /\ pc = "loadLedger"
    /\ \/ pc' = "match" /\ airtableRecords' = ledger
       \/ pc' = "failed" /\ UNCHANGED airtableRecords
    /\ UNCHANGED <<retries, job, newEmployee, ledger, result, pgRows, tz, updates,
                   cursor, successCount, errors, writes, matched, pass, rate>>

EmailsMatch ==
    /\ job = "emails" /\ pc = "match"
    /\ updates' = EmailMatches(airtableRecords, pgRows, 1)
    /\ matched' = {[pos |-> i,
                    sourceId |-> EmailMatchOf(airtableRecords, pgRows, i).pgEmployeeId] :
                        i \in {k \in 1..Len(airtableRecords) :
                                  EmailMatched(airtableRecords, pgRows, k)}}
    /\ cursor' = 1
    /\ pc' = "apply"
    /\ UNCHANGED <<retries, job, newEmployee, ledger, result, pgRows, tz, airtableRecords,
                   successCount, errors, writes, pass, rate>>

\* One turn of the apply loop: updateWithRetry swallows a failed write and
\* answers false, so the loop neither counts it nor records it
EmailsApply ==
    /\ job = "emails" /\ pc = "apply" /\ cursor <= Len(updates)
    /\ LET match == updates[cursor]
           updateFields == EmailUpdateFields(match)
       IN  IF DOMAIN updateFields = {}
           THEN UNCHANGED <<ledger, writes, successCount, rate>>
           ELSE \/ /\ ledger' = StoreUpdate(ledger, match.airtableId, updateFields)
                   /\ writes' = Append(writes, WriteCall(match.airtableId, updateFields, TRUE))
                   /\ successCount' = successCount + 1
                   /\ rate' = Paced(rate, FALSE, TRUE)
                \/ /\ writes' = Append(writes, WriteCall(match.airtableId, updateFields, FALSE))
                   /\ rate' = Paced(rate, FALSE, FALSE)
                   /\ UNCHANGED <<ledger, successCount>>
    /\ cursor' = cursor + 1
    /\ UNCHANGED <<retries, job, pc, newEmployee, result, pgRows, tz, airtableRecords, updates,
                   errors, matched, pass>>

\* The summary: "Successful updates", "Failed updates: errors.length"
EmailsReport ==
    /\ job = "emails" /\ pc = "apply" /\ cursor > Len(updates)
    /\ pc' = "done"
    /\ UNCHANGED <<retries, job, newEmployee, ledger, result, pgRows, tz, airtableRecords, updates,
                   cursor, successCount, errors, writes, matched, pass, rate>>

\* The next scheduled run of the same script over the same source data
EmailsNextPass ==
    /\ job = "emails" /\ pc = "done" /\ pass < MaxPasses
    /\ pass' = pass + 1
    /\ pc' = "loadSource"
    /\ airtableRecords' = <<>>
    /\ updates' = <<>>
    /\ cursor' = 0
    /\ successCount' = 0
    /\ errors' = <<>>
    /\ matched' = {}
    /\ rate' = [rate EXCEPT !.hot = FALSE]
    /\ UNCHANGED <<retries, job, newEmployee, ledger, result, pgRows, tz, writes>>

NextEmails ==
    \/ EmailsLoadSource
    \/ EmailsLoadLedger
    \/ EmailsMatch
    \/ EmailsApply
    \/ EmailsReport
    \/ EmailsNextPass

SpecEmails == InitEmails /\ [][NextEmails]_vars

----------------------------------------------------------------------------
(* Validation *)

isValidEmail(email) ==
    /\ Truthy(email)
    /\ \A i \in 1..Len(email) : email[i] # " "
    /\ \E p \in 2..Len(email) :
          /\ email[p] = "@"
          /\ \A i \in 1..Len(email) : email[i] = "@" => i = p
          /\ \E q \in (p + 2)..(Len(email) - 1) : email[q] = "."

isValidPhone(phone) == Truthy(phone) /\ Len(SelectSeq(phone, IsDigit)) >= PhoneDigits

isValidDate(date) == Truthy(date) /\ (IsIsoDate(date) \/ IsUsDate(date))

validateEmployee(employee) ==
    /\ Truthy(employee.name)
    /\ Truthy(employee.email) => isValidEmail(employee.email)
    /\ Truthy(employee.mobile_phone) => isValidPhone(employee.mobile_phone)

validateUpdateFields(fields) ==
    /\ Truthy(Prop(fields, "Email")) => isValidEmail(fields["Email"])
    /\ Truthy(Prop(fields, "Phone")) => isValidPhone(fields["Phone"])
    /\ Truthy(Prop(fields, "RSC Hire Date")) => isValidDate(fields["RSC Hire Date"])
    /\ Truthy(Prop(fields, "Status-RSPG")) => fields["Status-RSPG"] \in {Active, Inactive}
    /\ Truthy(Prop(fields, "Status")) => fields["Status"] \in {Hired, Separated}

----------------------------------------------------------------------------
(* employee-sync: syncEmployeeData *)

MaxEmpRows == 1
MaxEmpRecords == 2

EmptyFields == [f \in {} |-> Null]

\* The rows of the ranked employee query: row k is employee k
EmpRow(id, shape, active, z) ==
    [employee_id |-> id,
     name |-> (IF shape = "bare" THEN NameOther ELSE NameUpper),
     email |-> (IF shape = "full" THEN EmailLower ELSE Null),
     mobile_phone |-> (CASE shape = "full" -> PhoneLocal
                         [] shape = "badPhone" -> PhoneNoDigitsA
                         [] OTHER -> Null),
     active |-> active,
     hire_date |-> (IF shape = "full" THEN PgDate(5, z) ELSE NullDate),
     updated_at |-> NullDate,
     created_at |-> DateAt(id)]

EmpRowSeqs(z) ==
    {[k \in 1..Len(c) |-> EmpRow(k, c[k][1], c[k][2], z)] :
        c \in SeqsUpTo({"full", "bare", "badPhone"} \X BOOLEAN, MaxEmpRows)}

EmployeeFields(empId, email, phone, statusRSPG, status, name, hireDate) ==
    ContactFields(empId, email, phone, statusRSPG, status, name)
        @@ ("RSC Hire Date" :> hireDate)

EmpLedgerFields ==
    {EmployeeFields(key[1], key[2], key[3], rest[1], rest[2], rest[3], rest[4]) :
        key \in {<<<<"1">>, Undefined, Undefined>>, <<Undefined, EmailUpper, Undefined>>,
                 <<Undefined, Undefined, PhoneIntl>>, <<<<"2">>, EmailUpper, Undefined>>},
        rest \in {<<Active, Hired, NameUpper, IsoDate(5)>>,
                  <<Inactive, Separated, NameUpper, IsoDate(5)>>,
                  <<Active, Separated, Undefined, Undefined>>}}

\* getAirtableRecords(AIRTABLE_TABLE, ['RSC Emp ID'])[0]: the index is applied to
\* the pending promise, not to the records it resolves to
ProbeRecordAwaited(store) == IF Len(store) > 0 THEN store[1] ELSE NullRecord

ProbeRecord(store) == NullRecord

\* [id, email, phone, name].filter(Boolean)
Identifiers(emp) ==
    {k \in {NatToString(emp.employee_id), OptLower(emp.email),
            (IF Truthy(emp.mobile_phone) THEN standardizePhoneNumber(emp.mobile_phone) ELSE Null),
            OptLower(emp.name)} : Truthy(k)}

Recency(r) == IF r.updated_at.valid THEN r.updated_at.time ELSE r.created_at.time

\* The positions of a group in input order
InOrder(rows, group) == SelectSeq([i \in 1..Len(rows) |-> i], LAMBDA i : i \in group)

\* records.sort((a, b) => bDate - aDate), as positions: the sort is stable, so a
\* row goes in front of the first sorted row that is strictly less recent
RECURSIVE InsertByRecency(_, _, _)
InsertByRecency(rows, sorted, i) ==
    IF sorted = <<>> THEN <<i>>
    ELSE IF Recency(rows[i]) > Recency(rows[Head(sorted)]) THEN <<i>> \o sorted
    ELSE <<Head(sorted)>> \o InsertByRecency(rows, Tail(sorted), i)

RECURSIVE SortByRecency(_, _)
SortByRecency(rows, positions) ==
    IF positions = <<>> THEN <<>>
    ELSE InsertByRecency(rows,
                         SortByRecency(rows, SubSeq(positions, 1, Len(positions) - 1)),
                         positions[Len(positions)])

\* The position of the preferred row of a group: the first of the active rows
\* sorted by recency, the first of all rows sorted by recency when none is active
determinePreferredRecord(rows, group) ==
    LET activeRecords == {i \in group : rows[i].active}
    IN  IF activeRecords # {}
        THEN SortByRecency(rows, InOrder(rows, activeRecords))[1]
        ELSE SortByRecency(rows, InOrder(rows, group))[1]

\* pgEmployeeMap[key]: the position of the row stored under the key, 0 if none
pgEmployeeMap(rows, key) ==
    LET group == {i \in 1..Len(rows) :
                     validateEmployee(rows[i]) /\ key \in Identifiers(rows[i])}
    IN  IF group = {} THEN 0 ELSE determinePreferredRecord(rows, group)

EmpMatchIndex(rows, fields) ==
    LET byId == IF Truthy(fields["RSC Emp ID"])
                THEN pgEmployeeMap(rows, fields["RSC Emp ID"]) ELSE 0
        byEmail == IF byId = 0 /\ Truthy(fields["Email"])
                   THEN pgEmployeeMap(rows, toLowerCase(fields["Email"])) ELSE byId
    IN  IF byEmail = 0 /\ Truthy(fields["Phone"])
        THEN pgEmployeeMap(rows, standardizePhoneNumber(fields["Phone"])) ELSE byEmail

\* A status healing that only ever promotes a record to Active / Hired
StatusUpdatesWhenActive(fields, active) ==
    IF active
    THEN (IF fields["Status-RSPG"] # Active THEN ("Status-RSPG" :> Active) ELSE EmptyFields)
            @@ (IF fields["Status"] # Hired THEN ("Status" :> Hired) ELSE EmptyFields)
    ELSE EmptyFields

StatusUpdates(fields, active) ==
    LET statusRSPG == IF active THEN Active ELSE Inactive
        status == IF active THEN Hired ELSE Separated
    IN  (IF fields["Status-RSPG"] # statusRSPG THEN ("Status-RSPG" :> statusRSPG) ELSE EmptyFields)
            @@ (IF fields["Status"] # status THEN ("Status" :> status) ELSE EmptyFields)

EmpUpdateFields(fields, pgMatch, z) ==
    LET shouldUpdateFields ==
            \/ pgMatch.active
            \/ (~Truthy(fields["RSC Emp ID"]) /\ ~Truthy(fields["Email"])
                    /\ ~Truthy(fields["Phone"]))
        pgDate == formatDate(pgMatch.hire_date, z)
        airtableDate == fields["RSC Hire Date"]
        normalizedPgDate == toISODate(NewDate(pgDate, z))
        normalizedAirtableDate ==
            IF Truthy(airtableDate) THEN toISODate(NewDate(airtableDate, z)) ELSE Null
    IN  StatusUpdates(fields, pgMatch.active)
            @@ (IF shouldUpdateFields /\ fields["Name"] # pgMatch.name
                THEN ("Name" :> pgMatch.name) ELSE EmptyFields)
            @@ (IF shouldUpdateFields /\ pgMatch.hire_date.valid
                    /\ (~Truthy(airtableDate) \/ normalizedPgDate # normalizedAirtableDate)
                THEN ("RSC Hire Date" :> normalizedPgDate) ELSE EmptyFields)

\* The loop over the ledger snapshot from record i on: the plans it pushes
RECURSIVE EmpPlans(_, _, _, _)
EmpPlans(records, rows, z, i) ==
    IF i > Len(records) THEN <<>>
    ELSE LET m == EmpMatchIndex(rows, records[i].fields)
             updateFields == EmpUpdateFields(records[i].fields, rows[m], z)
         IN  IF m # 0 /\ DOMAIN updateFields # {} /\ validateUpdateFields(updateFields)
             THEN <<[airtableId |-> records[i].id, fields |-> updateFields]>>
                      \o EmpPlans(records, rows, z, i + 1)
             ELSE EmpPlans(records, rows, z, i + 1)

InitEmp ==
    /\ job = "employees"
    /\ pc = "probe"
    /\ newEmployee = NoEmployee
    /\ result = NoResult
    /\ tz \in TimeZones
    /\ pgRows \in EmpRowSeqs(tz)
    /\ ledger \in {AsRecords(fs) : fs \in SeqsUpTo(EmpLedgerFields, MaxEmpRecords)}
    /\ airtableRecords = <<>>
    /\ updates = <<>>
    /\ cursor = 0
    /\ successCount = 0
    /\ errors = <<>>
    /\ writes = <<>>
    /\ matched = {}
    /\ pass = 1
    /\ rate = NoRate
    /\ retries = 0

\* "Test write permission": only a record that is there gets the test write
EmpProbe ==
    /\ job = "employees" /\ pc = "probe"
    /\ LET testRecord == ProbeRecord(ledger)
           stamp == ("Last Sync Attempt" :> IsoDate(9))
       IN  IF testRecord # NullRecord
           THEN \/ /\ writes' = Append(writes, WriteCall(testRecord.id, stamp, TRUE))
                   /\ rate' = Paced(rate, FALSE, TRUE)
                   /\ pc' = "loadSource"
                \/ /\ writes' = Append(writes, WriteCall(testRecord.id, stamp, FALSE))
                   /\ rate' = Paced(rate, FALSE, FALSE)
                   /\ pc' = "failed"
           ELSE pc' = "loadSource" /\ UNCHANGED <<writes, rate>>
    /\ UNCHANGED <<retries, job, newEmployee, ledger, result, pgRows, tz, airtableRecords, updates,
                   cursor, successCount, errors, matched, pass>>

\* getRankedEmployees({ active: true }): the rows, or it raises and tryCatch rethrows
EmpLoadSource ==
    /\ job = "employees" /\ pc = "loadSource"
    /\ \/ pc' = "loadLedger"
       \/ pc' = "loadFailed"
    /\ UNCHANGED <<retries, job, newEmployee, ledger, result, pgRows, tz, airtableRecords, updates,
                   cursor, successCount, errors, writes, matched, pass, rate>>

EmpLoadLedger ==
    /\ job = "employees" /\ pc = "loadLedger"
    /\ \/ pc' = "match" /\ airtableRecords' = ledger
       \/ pc' = "loadFailed" /\ UNCHANGED airtableRecords
    /\ UNCHANGED <<retries, job, newEmployee, ledger, result, pgRows, tz, updates,
                   cursor, successCount, errors, writes, matched, pass, rate>>

EmpMatch ==
    /\ job = "employees" /\ pc = "match"
    /\ updates' = EmpPlans(airtableRecords, pgRows, tz, 1)
    /\ matched' = {[pos |-> i,
                    sourceId |-> pgRows[EmpMatchIndex(pgRows, airtableRecords[i].fields)].employee_id] :
                        i \in {k \in 1..Len(airtableRecords) :
                                  EmpMatchIndex(pgRows, airtableRecords[k].fields) # 0}}
    /\ cursor' = 1
    /\ pc' = "apply"
    /\ UNCHANGED <<retries, job, newEmployee, ledger, result, pgRows, tz, airtableRecords,
                   successCount, errors, writes, pass, rate>>

\* An apply loop that stays on a plan until its write succeeds
EmpApplyRetry ==
    /\ job = "employees" /\ pc = "apply" /\ cursor <= Len(updates)
    /\ Len(writes) < MaxEmpRecords + 2
    /\ LET update == updates[cursor]
       IN  \/ /\ ledger' = StoreUpdate(ledger, update.airtableId, update.fields)
              /\ writes' = Append(writes, WriteCall(update.airtableId, update.fields, TRUE))
              /\ successCount' = successCount + 1
              /\ rate' = Paced(rate, FALSE, TRUE)
              /\ cursor' = cursor + 1
              /\ UNCHANGED errors
           \/ /\ writes' = Append(writes, WriteCall(update.airtableId, update.fields, FALSE))
              /\ errors' = Append(errors, update.airtableId)
              /\ rate' = Paced(rate, FALSE, FALSE)
              /\ UNCHANGED <<ledger, successCount, cursor>>
    /\ UNCHANGED <<retries, job, pc, newEmployee, result, pgRows, tz, airtableRecords, updates,
                   matched, pass>>

\* One turn of the apply loop: a write that raises is caught, recorded in errors
\* and the loop goes on
EmpApply ==
    /\ job = "employees" /\ pc = "apply" /\ cursor <= Len(updates)
    /\ LET update == updates[cursor]
       IN  \/ /\ ledger' = StoreUpdate(ledger, update.airtableId, update.fields)
              /\ writes' = Append(writes, WriteCall(update.airtableId, update.fields, TRUE))
              /\ successCount' = successCount + 1
              /\ rate' = Paced(rate, FALSE, TRUE)
              /\ UNCHANGED errors
           \/ /\ writes' = Append(writes, WriteCall(update.airtableId, update.fields, FALSE))
              /\ errors' = Append(errors, update.airtableId)
              /\ rate' = Paced(rate, FALSE, FALSE)
              /\ UNCHANGED <<ledger, successCount>>
    /\ cursor' = cursor + 1
    /\ UNCHANGED <<retries, job, pc, newEmployee, result, pgRows, tz, airtableRecords, updates,
                   matched, pass>>

\* logSyncEnd and return { successCount, errorCount }
EmpReport ==
    /\ job = "employees" /\ pc = "apply" /\ cursor > Len(updates)
    /\ pc' = "done"
    /\ UNCHANGED <<retries, job, newEmployee, ledger, result, pgRows, tz, airtableRecords, updates,
                   cursor, successCount, errors, writes, matched, pass, rate>>

NextEmp ==
    \/ EmpProbe
    \/ EmpLoadSource
    \/ EmpLoadLedger
    \/ EmpMatch
    \/ EmpApply
    \/ EmpReport

SpecEmp == InitEmp /\ [][NextEmp]_vars

----------------------------------------------------------------------------
(* guard-cards.js: syncPostgresToAirtable *)

MaxGuardRows == 1
MaxGuardRecords == 1

CardA == <<"G", "1">>
CardB == <<"G", "2">>
GuardLicense == <<"1">>
OtherLicense == <<"2">>

GuardFieldNames ==
    {"RSC Emp ID", "GC - RSPG", "GC Exp Date - RSPG", "license type id - RSPG",
     "Status-RSPG", "Status"}

\* The latest license of employee k, one row per employee
GuardRow(id, license, card, active, z) ==
    [employee_id |-> id,
     license_type_id |-> license,
     number |-> card[1],
     expires_on |-> (IF card[2] THEN PgDate(5, z) ELSE NullDate),
     active |-> active]

GuardRowSeqs(z) ==
    {[k \in 1..Len(c) |-> GuardRow(k, c[k][1], c[k][2], c[k][3], z)] :
        c \in SeqsUpTo({GuardLicense, OtherLicense}
                           \X {<<CardA, TRUE>>, <<CardA, FALSE>>, <<Null, FALSE>>}
                           \X BOOLEAN, MaxGuardRows)}

GuardFields(empId, card, expDate, license, statusRSPG, status) ==
    ("RSC Emp ID" :> empId) @@ ("GC - RSPG" :> card) @@ ("GC Exp Date - RSPG" :> expDate)
        @@ ("license type id - RSPG" :> license)
        @@ ("Status-RSPG" :> statusRSPG) @@ ("Status" :> status)

GuardLedgerFields ==
    {GuardFields(i, c[1], c[2], c[3], st[1], st[2]) :
        i \in {Undefined, <<"1">>},
        c \in {<<CardA, IsoDate(5), GuardLicense>>, <<CardA, Undefined, GuardLicense>>,
               <<Undefined, Undefined, Undefined>>, <<CardB, IsoDate(4), GuardLicense>>},
        st \in {<<Active, Hired>>, <<Inactive, Separated>>}}

\* const [year, month, day] = s.split('-'); `${month}/${day}/${year}`
SplitDashDate(s) ==
    SubSeq(s, 6, 7) \o <<"/">> \o SubSeq(s, 9, 10) \o <<"/">> \o SubSeq(s, 1, 4)

\* s.replace(/-/g, '/')
ReplaceDashes(s) == [i \in 1..Len(s) |-> IF s[i] = "-" THEN "/" ELSE s[i]]

RECURSIVE Trim(_)
Trim(s) ==
    IF s = <<>> THEN s
    ELSE IF Head(s) = " " THEN Trim(Tail(s))
    ELSE IF s[Len(s)] = " " THEN Trim(SubSeq(s, 1, Len(s) - 1))
    ELSE s

\* value || ''
OrEmpty(v) == IF Truthy(v) THEN v ELSE <<>>

\* getEmployeesFromAirtable: blanks become '', the expiry is rearranged
getEmployeesFromAirtable(store) ==
    [i \in 1..Len(store) |->
        [id |-> store[i].id,
         fields |-> [f \in GuardFieldNames |->
                        IF f = "GC Exp Date - RSPG" /\ Truthy(store[i].fields[f])
                        THEN SplitDashDate(store[i].fields[f])
                        ELSE OrEmpty(store[i].fields[f])]]]

\* airtableById[key]: the position of the last record stored under the key
airtableById(records, key) ==
    LET hits == {i \in 1..Len(records) :
                    Truthy(records[i].fields["RSC Emp ID"])
                        /\ records[i].fields["RSC Emp ID"] = key}
    IN  IF hits = {} THEN 0 ELSE CHOOSE i \in hits : \A j \in hits : j <= i

formattedExpDate(pgEmployee, z) ==
    IF pgEmployee.expires_on.valid
    THEN UsDate((pgEmployee.expires_on.time + z) \div 24)
    ELSE <<>>

\* A planner that submits an update for every matched record
needsUpdateAlways(pgEmployee, fields, z) == TRUE

needsUpdate(pgEmployee, fields, z) ==
    LET currentGuardCard == OrEmpty(fields["GC - RSPG"])
        currentExpDate == IF Truthy(fields["GC Exp Date - RSPG"])
                          THEN ReplaceDashes(fields["GC Exp Date - RSPG"]) ELSE <<>>
        currentLicenseType == OrEmpty(fields["license type id - RSPG"])
        currentRscEmpId == OrEmpty(fields["RSC Emp ID"])
    IN  \/ currentRscEmpId # NatToString(pgEmployee.employee_id)
        \/ (Truthy(pgEmployee.number) /\ ~Truthy(currentGuardCard))
        \/ (pgEmployee.expires_on.valid /\ ~Truthy(currentExpDate))
        \/ (Truthy(pgEmployee.license_type_id) /\ ~Truthy(currentLicenseType))
        \/ (Truthy(pgEmployee.number) /\ Truthy(currentGuardCard)
                /\ Trim(currentGuardCard) # Trim(pgEmployee.number))
        \/ (pgEmployee.expires_on.valid /\ Truthy(currentExpDate)
                /\ Trim(currentExpDate) # Trim(formattedExpDate(pgEmployee, z)))
        \/ (Truthy(pgEmployee.license_type_id) /\ Truthy(currentLicenseType)
                /\ currentLicenseType # pgEmployee.license_type_id)
        \/ fields["Status-RSPG"] # (IF pgEmployee.active THEN Active ELSE Inactive)
        \/ fields["Status"] # (IF pgEmployee.active THEN Hired ELSE Separated)

\* updateFields of a match: all six fields, an explicit null for a null expiry
GuardUpdateFields(pgEmployee, z) ==
    GuardFields(NatToString(pgEmployee.employee_id),
                OrEmpty(pgEmployee.number),
                (IF ~pgEmployee.expires_on.valid THEN Null
                 ELSE formattedExpDate(pgEmployee, z)),
                pgEmployee.license_type_id,
                (IF pgEmployee.active THEN Active ELSE Inactive),
                (IF pgEmployee.active THEN Hired ELSE Separated))

GuardMatchIndex(records, pgEmployee) ==
    IF pgEmployee.license_type_id = GuardLicense
    THEN airtableById(records, NatToString(pgEmployee.employee_id))
    ELSE 0

\* recordsNeedingUpdate, from source row k on
RECURSIVE recordsNeedingUpdate(_, _, _, _)
recordsNeedingUpdate(records, rows, z, k) ==
    IF k > Len(rows) THEN <<>>
    ELSE LET m == GuardMatchIndex(records, rows[k])
         IN  IF m # 0 /\ needsUpdate(rows[k], records[m].fields, z)
             THEN <<[airtableId |-> records[m].id,
                     fields |-> GuardUpdateFields(rows[k], z)]>>
                      \o recordsNeedingUpdate(records, rows, z, k + 1)
             ELSE recordsNeedingUpdate(records, rows, z, k + 1)

InitGuard ==
    /\ job = "guard"
    /\ pc = "loadSource"
    /\ newEmployee = NoEmployee
    /\ result = NoResult
    /\ tz \in TimeZones
    /\ pgRows \in GuardRowSeqs(tz)
    /\ ledger \in {AsRecords(fs) : fs \in SeqsUpTo(GuardLedgerFields, MaxGuardRecords)}
    /\ airtableRecords = <<>>
    /\ updates = <<>>
    /\ cursor = 0
    /\ successCount = 0
    /\ errors = <<>>
    /\ writes = <<>>
    /\ matched = {}
    /\ pass = 1
    /\ rate = NoRate
    /\ retries = 0

\* getEmployeesFromPostgres(): the rows, or the query raises and the pass rethrows
GuardLoadSource ==
    /\ job = "guard" /\ pc = "loadSource"
    /\ \/ pc' = "loadLedger"
       \/ pc' = "loadFailed"
    /\ UNCHANGED <<retries, job, newEmployee, ledger, result, pgRows, tz, airtableRecords, updates,
                   cursor, successCount, errors, writes, matched, pass, rate>>

GuardLoadLedger ==
    /\ job = "guard" /\ pc = "loadLedger"
    /\ \/ pc' = "match" /\ airtableRecords' = getEmployeesFromAirtable(ledger)
       \/ pc' = "loadFailed" /\ UNCHANGED airtableRecords
    /\ UNCHANGED <<retries, job, newEmployee, ledger, result, pgRows, tz, updates,
                   cursor, successCount, errors, writes, matched, pass, rate>>

\* matchedData and recordsNeedingUpdate; "No updates needed. Aborting." ends the pass
GuardMatch ==
    /\ job = "guard" /\ pc = "match"
    /\ updates' = recordsNeedingUpdate(airtableRecords, pgRows, tz, 1)
    /\ matched' = {[pos |-> GuardMatchIndex(airtableRecords, pgRows[k]),
                    sourceId |-> pgRows[k].employee_id] :
                        k \in {n \in 1..Len(pgRows) :
                                  GuardMatchIndex(airtableRecords, pgRows[n]) # 0}}
    /\ cursor' = 1
    /\ pc' = IF updates' = <<>> THEN "done" ELSE "apply"
    /\ UNCHANGED <<retries, job, newEmployee, ledger, result, pgRows, tz, airtableRecords,
                   successCount, errors, writes, pass, rate>>

\* One turn of the apply loop: the 200 ms delay, then the write; a write that
\* raises is recorded and the loop continues
GuardApply ==
    /\ job = "guard" /\ pc = "apply" /\ cursor <= Len(updates)
    /\ LET match == updates[cursor]
       IN  \/ /\ ledger' = StoreUpdate(ledger, match.airtableId, match.fields)
              /\ writes' = Append(writes, WriteCall(match.airtableId, match.fields, TRUE))
              /\ successCount' = successCount + 1
              /\ rate' = Paced(rate, TRUE, TRUE)
              /\ UNCHANGED errors
           \/ /\ writes' = Append(writes, WriteCall(match.airtableId, match.fields, FALSE))
              /\ errors' = Append(errors, match.airtableId)
              /\ rate' = Paced(rate, TRUE, FALSE)
              /\ UNCHANGED <<ledger, successCount>>
    /\ cursor' = cursor + 1
    /\ UNCHANGED <<retries, job, pc, newEmployee, result, pgRows, tz, airtableRecords, updates,
                   matched, pass>>

GuardReport ==
    /\ job = "guard" /\ pc = "apply" /\ cursor > Len(updates)
    /\ pc' = "done"
    /\ UNCHANGED <<retries, job, newEmployee, ledger, result, pgRows, tz, airtableRecords, updates,
                   cursor, successCount, errors, writes, matched, pass, rate>>

NextGuard ==
    \/ GuardLoadSource
    \/ GuardLoadLedger
    \/ GuardMatch
    \/ GuardApply
    \/ GuardReport

SpecGuard == InitGuard /\ [][NextGuard]_vars

----------------------------------------------------------------------------
(* employee-sync: addNewEmployees *)

\* getRankedEmployees({ active: true }): only active rows
AddRowSeqs(z) == {rows \in EmpRowSeqs(z) : \A i \in 1..Len(rows) : rows[i].active}

RegionUnknown == <<"U", "n", "k", "n", "o", "w", "n">>

\* new Set(airtableRecords.map(record => record.fields['RSC Emp ID']).filter(Boolean))
existingEmpIds(records) ==
    {records[i].fields["RSC Emp ID"] :
        i \in {k \in 1..Len(records) : Truthy(records[k].fields["RSC Emp ID"])}}

\* result.filter(emp => !existingEmpIds.has(emp.employee_id.toString()))
newEmployees(rows, records) ==
    SelectSeq(rows, LAMBDA emp : NatToString(emp.employee_id) \notin existingEmpIds(records))

\* The fields of the record created for a source employee (the tenants of the
\* sample rows have no entry in tenantStates)
NewRecordFields(emp, z) ==
    LET formattedHireDate == IF Truthy(formatDate(emp.hire_date, z))
                             THEN formatDate(emp.hire_date, z) ELSE <<>>
    IN  EmployeeFields(NatToString(emp.employee_id),
                       (IF Truthy(emp.email) THEN emp.email ELSE <<>>),
                       (IF Truthy(emp.mobile_phone) THEN emp.mobile_phone ELSE <<>>),
                       (IF emp.active THEN Active ELSE Inactive),
                       (IF emp.active THEN Hired ELSE Separated),
                       emp.name,
                       formattedHireDate)
            @@ ("Region" :> RegionUnknown)

\* base(table).create(fields) when it succeeds: the record is appended to the table
StoreCreate(store, fields) ==
    Append(store, [id |-> RecIds[Len(store) + 1],
                   fields |-> [f \in DOMAIN fields |-> StoredValue(fields[f])]])

\* One create call as the store saw it
CreateCall(fields, ok) == [pass |-> pass, recordId |-> "create", fields |-> fields, ok |-> ok]

InitAdd ==
    /\ job = "add"
    /\ pc = "loadSource"
    /\ newEmployee = NoEmployee
    /\ result = NoResult
    /\ tz \in TimeZones
    /\ pgRows \in AddRowSeqs(tz)
    /\ ledger \in {AsRecords(fs) : fs \in SeqsUpTo(EmpLedgerFields, MaxEmpRecords)}
    /\ airtableRecords = <<>>
    /\ updates = <<>>
    /\ cursor = 0
    /\ successCount = 0
    /\ errors = <<>>
    /\ writes = <<>>
    /\ matched = {}
    /\ pass = 1
    /\ rate = NoRate
    /\ retries = 0

AddLoadSource ==
    /\ job = "add" /\ pc = "loadSource"
    /\ \/ pc' = "loadLedger"
       \/ pc' = "loadFailed"
    /\ UNCHANGED <<retries, job, newEmployee, ledger, result, pgRows, tz, airtableRecords, updates,
                   cursor, successCount, errors, writes, matched, pass, rate>>

AddLoadLedger ==
    /\ job = "add" /\ pc = "loadLedger"
    /\ \/ pc' = "filter" /\ airtableRecords' = ledger
       \/ pc' = "loadFailed" /\ UNCHANGED airtableRecords
    /\ UNCHANGED <<retries, job, newEmployee, ledger, result, pgRows, tz, updates,
                   cursor, successCount, errors, writes, matched, pass, rate>>

\* Steps 3 and 4: the employees whose id no ledger record carries
AddFilter ==
    /\ job = "add" /\ pc = "filter"
    /\ updates' = newEmployees(pgRows, airtableRecords)
    /\ cursor' = 1
    /\ pc' = "create"
    /\ UNCHANGED <<retries, job, newEmployee, ledger, result, pgRows, tz, airtableRecords,
                   successCount, errors, writes, matched, pass, rate>>

\* One turn of the create loop: an invalid employee is skipped, fields that
\* createAirtableRecord rejects or a create that raises go to errors
AddCreate ==
    /\ job = "add" /\ pc = "create" /\ cursor <= Len(updates)
    /\ LET emp == updates[cursor]
           newRecord == NewRecordFields(emp, tz)
       IN  IF ~validateEmployee(emp)
           THEN UNCHANGED <<ledger, writes, successCount, errors, rate>>
           ELSE IF ~validateUpdateFields(newRecord)
           THEN /\ errors' = Append(errors, emp.employee_id)
                /\ UNCHANGED <<ledger, writes, successCount, rate>>
           ELSE \/ /\ ledger' = StoreCreate(ledger, newRecord)
                   /\ writes' = Append(writes, CreateCall(newRecord, TRUE))
                   /\ successCount' = successCount + 1
                   /\ rate' = Paced(rate, FALSE, TRUE)
                   /\ UNCHANGED errors
                \/ /\ writes' = Append(writes, CreateCall(newRecord, FALSE))
                   /\ errors' = Append(errors, emp.employee_id)
                   /\ rate' = Paced(rate, FALSE, FALSE)
                   /\ UNCHANGED <<ledger, successCount>>
    /\ cursor' = cursor + 1
    /\ UNCHANGED <<retries, job, pc, newEmployee, result, pgRows, tz, airtableRecords, updates,
                   matched, pass>>

\* logSyncEnd and return successCount > 0
AddReport ==
    /\ job = "add" /\ pc = "create" /\ cursor > Len(updates)
    /\ pc' = "done"
    /\ UNCHANGED <<retries, job, newEmployee, ledger, result, pgRows, tz, airtableRecords, updates,
                   cursor, successCount, errors, writes, matched, pass, rate>>

NextAdd ==
    \/ AddLoadSource
    \/ AddLoadLedger
    \/ AddFilter
    \/ AddCreate
    \/ AddReport

SpecAdd == InitAdd /\ [][NextAdd]_vars

----------------------------------------------------------------------------
(* duplicates: detectDuplicates *)

MaxDupRecords == 3

Yes == <<"Y", "e", "s">>

DupFields(empId, email, phone, name, statusRSPG, status, flag) ==
    ContactFields(empId, email, phone, statusRSPG, status, name)
        @@ ("Potential Duplicate" :> flag) @@ ("Duplicate Notes" :> Undefined)

\* The sample ledgers carry one employee id, one email in two spellings and one
\* phone number in two spellings
DupLedgerFields ==
    {DupFields(key[1], key[2], key[3], key[4], st[1], st[2], Undefined) :
        key \in {<<Undefined, EmailUpper, Undefined, NameUpper>>,
                 <<Undefined, EmailLower, PhoneNoDigitsB, Undefined>>,
                 <<<<"1">>, EmailLower, Undefined, NameLower>>,
                 <<<<"1">>, Undefined, PhoneIntl, NameOther>>,
                 <<Undefined, Undefined, PhoneLocal, Undefined>>},
        st \in {<<Active, Hired>>, <<Inactive, Separated>>}}
    \cup {DupFields(Undefined, EmailUpper, Undefined, NameUpper, st[1], st[2], Yes) :
             st \in {<<Active, Hired>>, <<Inactive, Separated>>}}

\* The key a record is filed under in employeeIdMap, emailMap or phoneMap;
\* undefined when the record is not filed in that map
MapKey(kind, fields) ==
    CASE kind = "employeeId" ->
             IF Truthy(fields["RSC Emp ID"]) THEN fields["RSC Emp ID"] ELSE Undefined
      [] kind = "email" ->
             IF Truthy(fields["Email"]) THEN toLowerCase(fields["Email"]) ELSE Undefined
      [] kind = "phone" ->
             IF Truthy(fields["Phone"]) /\ Truthy(standardizePhoneNumber(fields["Phone"]))
             THEN standardizePhoneNumber(fields["Phone"]) ELSE Undefined

\* A loop that files every record, the ones already marked as duplicates too
RECURSIVE BuildMapAll(_, _, _, _)
BuildMapAll(records, kind, i, acc) ==
    IF i > Len(records) THEN acc
    ELSE LET k == MapKey(kind, records[i].fields)
         IN  IF k = Undefined
             THEN BuildMapAll(records, kind, i + 1, acc)
             ELSE IF \E b \in 1..Len(acc) : acc[b].key = k
             THEN BuildMapAll(records, kind, i + 1,
                              [b \in 1..Len(acc) |->
                                  IF acc[b].key = k
                                  THEN [key |-> k, records |-> Append(acc[b].records, i)]
                                  ELSE acc[b]])
             ELSE BuildMapAll(records, kind, i + 1, Append(acc, [key |-> k, records |-> <<i>>]))

\* The loop that fills a map: its entries in insertion order, each with the
\* positions of its records in fetch order. A record already marked as a
\* duplicate is skipped.
RECURSIVE BuildMap(_, _, _, _)
BuildMap(records, kind, i, acc) ==
    IF i > Len(records) THEN acc
    ELSE LET k == MapKey(kind, records[i].fields)
         IN  IF records[i].fields["Potential Duplicate"] = Yes \/ k = Undefined
             THEN BuildMap(records, kind, i + 1, acc)
             ELSE IF \E b \in 1..Len(acc) : acc[b].key = k
             THEN BuildMap(records, kind, i + 1,
                           [b \in 1..Len(acc) |->
                               IF acc[b].key = k
                               THEN [key |-> k, records |-> Append(acc[b].records, i)]
                               ELSE acc[b]])
             ELSE BuildMap(records, kind, i + 1, Append(acc, [key |-> k, records |-> <<i>>]))

DupActive(fields) == fields["Status"] = Active \/ fields["Status-RSPG"] = Active

\* key.includes('@') ? 'email' : (key.match(/^\d+$/) ? 'employeeId' : 'phone')
duplicateType(key) ==
    IF \E i \in 1..Len(key) : key[i] = "@" THEN "email"
    ELSE IF Len(key) > 0 /\ \A i \in 1..Len(key) : IsDigit(key[i]) THEN "employeeId"
    ELSE "phone"

\* The entries findDuplicatesInMap pushes for one bucket, given the order in
\* which it holds the bucket's records: every record after the first one
DuplicatesOf(records, key, sortedRecords) ==
    [n \in 1..(Len(sortedRecords) - 1) |->
        [recordId |-> records[sortedRecords[n + 1]].id,
         name |-> records[sortedRecords[n + 1]].fields["Name"],
         duplicateType |-> duplicateType(key),
         duplicateValue |-> key,
         duplicateWith |-> [recordId |-> records[sortedRecords[1]].id,
                            name |-> records[sortedRecords[1]].fields["Name"]]]]

\* A findDuplicatesInMap that keeps the first record of a bucket in fetch order
RECURSIVE findDuplicatesKeepFirst(_, _, _)
findDuplicatesKeepFirst(records, map, b) ==
    IF b > Len(map) THEN <<>>
    ELSE (IF Len(map[b].records) > 1
          THEN DuplicatesOf(records, map[b].key, map[b].records)
          ELSE <<>>) \o findDuplicatesKeepFirst(records, map, b + 1)

\* The sort is stable: the active records in fetch order, then the others
RECURSIVE findDuplicatesInMap(_, _, _)
findDuplicatesInMap(records, map, b) ==
    IF b > Len(map) THEN <<>>
    ELSE LET isActive(i) == DupActive(records[i].fields)
             isInactive(i) == ~DupActive(records[i].fields)
             sortedRecords == SelectSeq(map[b].records, isActive)
                                  \o SelectSeq(map[b].records, isInactive)
         IN  (IF Len(map[b].records) > 1
              THEN DuplicatesOf(records, map[b].key, sortedRecords)
              ELSE <<>>) \o findDuplicatesInMap(records, map, b + 1)

DuplicatesBy(records, kind) == findDuplicatesInMap(records, BuildMap(records, kind, 1, <<>>), 1)

\* Step 5: the first entry of each record id
RECURSIVE uniqueDuplicates(_, _, _)
uniqueDuplicates(allDuplicates, i, acc) ==
    IF i > Len(allDuplicates) THEN acc
    ELSE IF \E n \in 1..Len(acc) : acc[n].recordId = allDuplicates[i].recordId
    THEN uniqueDuplicates(allDuplicates, i + 1, acc)
    ELSE uniqueDuplicates(allDuplicates, i + 1, Append(acc, allDuplicates[i]))

PossibleDuplicate ==
    <<"P", "o", "s", "s", "i", "b", "l", "e", " ", "d", "u", "p", "l", "i", "c", "a", "t", "e", " ">>
MatchWith == <<" ", "m", "a", "t", "c", "h", " ", "w", "i", "t", "h", " ">>
AnotherRecord == <<"a", "n", "o", "t", "h", "e", "r", " ", "r", "e", "c", "o", "r", "d">>

TypeChars(type) ==
    CASE type = "email" -> <<"e", "m", "a", "i", "l">>
      [] type = "employeeId" -> <<"e", "m", "p", "l", "o", "y", "e", "e", "I", "d">>
      [] type = "phone" -> <<"p", "h", "o", "n", "e">>

\* The fields of the write that flags a duplicate
FlagFields(duplicate) ==
    ("Potential Duplicate" :> Yes)
        @@ ("Duplicate Notes" :>
                PossibleDuplicate \o TypeChars(duplicate.duplicateType) \o MatchWith
                    \o (IF Truthy(duplicate.duplicateWith.name)
                        THEN duplicate.duplicateWith.name ELSE AnotherRecord))

NoDuplicates == [byEmployeeId |-> <<>>, byEmail |-> <<>>, byPhone |-> <<>>]

InitDup ==
    /\ job = "duplicates"
    /\ pc = "loadLedger"
    /\ newEmployee = NoEmployee
    /\ result = NoDuplicates
    /\ tz = 0
    /\ pgRows = <<>>
    /\ ledger \in {AsRecords(fs) : fs \in SeqsUpTo(DupLedgerFields, MaxDupRecords)}
    /\ airtableRecords = <<>>
    /\ updates = <<>>
    /\ cursor = 0
    /\ successCount = 0
    /\ errors = <<>>
    /\ writes = <<>>
    /\ matched = {}
    /\ pass = 1
    /\ rate = NoRate
    /\ retries = 0

\* getAirtableRecords: the records, or it raises and tryCatch rethrows
DupLoadLedger ==
    /\ job = "duplicates" /\ pc = "loadLedger"
    /\ \/ pc' = "detect" /\ airtableRecords' = ledger
       \/ pc' = "loadFailed" /\ UNCHANGED airtableRecords
    /\ UNCHANGED <<retries, job, newEmployee, ledger, result, pgRows, tz, updates,
                   cursor, successCount, errors, writes, matched, pass, rate>>

\* Steps 2 to 5: the maps, the duplicates of each map, the list to flag
DupDetect ==
    /\ job = "duplicates" /\ pc = "detect"
    /\ LET duplicates == [byEmployeeId |-> DuplicatesBy(airtableRecords, "employeeId"),
                          byEmail |-> DuplicatesBy(airtableRecords, "email"),
                          byPhone |-> DuplicatesBy(airtableRecords, "phone")]
       IN  /\ result' = duplicates
           /\ updates' = uniqueDuplicates(duplicates.byEmployeeId \o duplicates.byEmail
                                              \o duplicates.byPhone, 1, <<>>)
    /\ cursor' = 1
    /\ pc' = "flag"
    /\ UNCHANGED <<retries, job, newEmployee, ledger, pgRows, tz, airtableRecords,
                   successCount, errors, writes, matched, pass, rate>>

\* One turn of the flag loop
DupFlag ==
    /\ job = "duplicates" /\ pc = "flag" /\ cursor <= Len(updates)
    /\ LET duplicate == updates[cursor]
       IN  \/ /\ ledger' = StoreUpdate(ledger, duplicate.recordId, FlagFields(duplicate))
              /\ writes' = Append(writes, WriteCall(duplicate.recordId, FlagFields(duplicate), TRUE))
              /\ successCount' = successCount + 1
              /\ rate' = Paced(rate, FALSE, TRUE)
              /\ UNCHANGED errors
           \/ /\ writes' = Append(writes, WriteCall(duplicate.recordId, FlagFields(duplicate), FALSE))
              /\ errors' = Append(errors, duplicate.recordId)
              /\ rate' = Paced(rate, FALSE, FALSE)
              /\ UNCHANGED <<ledger, successCount>>
    /\ cursor' = cursor + 1
    /\ UNCHANGED <<retries, job, pc, newEmployee, result, pgRows, tz, airtableRecords, updates,
                   matched, pass>>

\* The reports, the summary and return updateSuccessCount > 0
DupReport ==
    /\ job = "duplicates" /\ pc = "flag" /\ cursor > Len(updates)
    /\ pc' = "done"
    /\ UNCHANGED <<retries, job, newEmployee, ledger, result, pgRows, tz, airtableRecords, updates,
                   cursor, successCount, errors, writes, matched, pass, rate>>

NextDup ==
    \/ DupLoadLedger
    \/ DupDetect
    \/ DupFlag
    \/ DupReport

SpecDup == InitDup /\ [][NextDup]_vars

----------------------------------------------------------------------------
(* duplicates: fetchAirtableRecords and flagDuplicateRecords *)

MaxFlagRecords == 2

MAX_RETRIES == 3

\* The key of a record in emailMap, phoneMap or nameMap
FlagKey(kind, fields) ==
    CASE kind = "email" -> IF OptLower(fields["Email"]) = Undefined THEN Undefined
                           ELSE Trim(toLowerCase(fields["Email"]))
      [] kind = "phone" -> IF fields["Phone"] \in {Null, Undefined} THEN Undefined
                           ELSE Trim(fields["Phone"])
      [] kind = "name" -> IF OptLower(fields["Name"]) = Undefined THEN Undefined
                          ELSE Trim(toLowerCase(fields["Name"]))

\* Set.prototype.add on a set kept in insertion order
AddId(ids, id) == IF \E n \in 1..Len(ids) : ids[n] = id THEN ids ELSE Append(ids, id)

\* A record whose key is already in the map is added together with the record
\* the map holds for the key, which is the first one fetched with it
FlagStep(records, i, kind, ids) ==
    LET key == FlagKey(kind, records[i].fields)
        first == FirstIndex({j \in 1..i : FlagKey(kind, records[j].fields) = key})
    IN  IF Truthy(key) /\ first < i
        THEN AddId(AddId(ids, records[i].id), records[first].id)
        ELSE ids

RECURSIVE duplicateIds(_, _, _)
duplicateIds(records, i, ids) ==
    IF i > Len(records) THEN ids
    ELSE duplicateIds(records, i + 1,
             FlagStep(records, i, "name",
                 FlagStep(records, i, "phone", FlagStep(records, i, "email", ids))))

InitFlag ==
    /\ job = "flag"
    /\ pc = "fetch"
    /\ newEmployee = NoEmployee
    /\ result = NoDuplicates
    /\ tz = 0
    /\ pgRows = <<>>
    /\ ledger \in {AsRecords(fs) : fs \in SeqsUpTo(DupLedgerFields, MaxFlagRecords)}
    /\ airtableRecords = <<>>
    /\ updates = <<>>
    /\ cursor = 0
    /\ successCount = 0
    /\ errors = <<>>
    /\ writes = <<>>
    /\ matched = {}
    /\ pass = 1
    /\ rate = NoRate
    /\ retries = 0

\* A fetch loop that goes on to another attempt after every failure
fetchWithoutLimit ==
    /\ job = "flag" /\ pc = "fetch" /\ retries <= MAX_RETRIES
    /\ \/ /\ airtableRecords' = ledger
          /\ pc' = "detect"
          /\ UNCHANGED retries
       \/ /\ retries' = retries + 1
          /\ UNCHANGED <<pc, airtableRecords>>
    /\ UNCHANGED <<job, newEmployee, ledger, result, pgRows, tz, updates,
                   cursor, successCount, errors, writes, matched, pass, rate>>

\* One turn of the while loop of fetchAirtableRecords: the fetch returns the
\* records, or it raises, which is counted, and the MAX_RETRIES-th failure throws
fetchAirtableRecords ==
    /\ job = "flag" /\ pc = "fetch" /\ retries < MAX_RETRIES
    /\ \/ /\ airtableRecords' = ledger
          /\ pc' = "detect"
          /\ UNCHANGED retries
       \/ /\ retries' = retries + 1
          /\ pc' = IF retries + 1 = MAX_RETRIES THEN "fetchFailed" ELSE "fetch"
          /\ UNCHANGED airtableRecords
    /\ UNCHANGED <<job, newEmployee, ledger, result, pgRows, tz, updates,
                   cursor, successCount, errors, writes, matched, pass, rate>>

\* The first pass over the records: the ids to flag
FlagDetect ==
    /\ job = "flag" /\ pc = "detect"
    /\ updates' = duplicateIds(airtableRecords, 1, <<>>)
    /\ cursor' = 1
    /\ pc' = "flag"
    /\ UNCHANGED <<retries, job, newEmployee, ledger, result, pgRows, tz, airtableRecords,
                   successCount, errors, writes, matched, pass, rate>>

\* One turn of the update loop: a record that already carries 'Yes' is left alone
FlagUpdate ==
    /\ job = "flag" /\ pc = "flag" /\ cursor <= Len(updates)
    /\ LET recordId == updates[cursor]
           record == airtableRecords[CHOOSE i \in 1..Len(airtableRecords) :
                                         airtableRecords[i].id = recordId]
           fields == ("Potential Duplicate" :> Yes)
       IN  IF record.fields["Potential Duplicate"] # Yes
           THEN \/ /\ ledger' = StoreUpdate(ledger, recordId, fields)
                   /\ writes' = Append(writes, WriteCall(recordId, fields, TRUE))
                   /\ successCount' = successCount + 1
                   /\ rate' = Paced(rate, FALSE, FALSE)
                   /\ UNCHANGED errors
                \/ /\ writes' = Append(writes, WriteCall(recordId, fields, FALSE))
                   /\ errors' = Append(errors, recordId)
                   /\ rate' = Paced(rate, FALSE, FALSE)
                   /\ UNCHANGED <<ledger, successCount>>
           ELSE UNCHANGED <<ledger, writes, successCount, errors, rate>>
    /\ cursor' = cursor + 1
    /\ UNCHANGED <<retries, job, pc, newEmployee, result, pgRows, tz, airtableRecords, updates,
                   matched, pass>>

FlagReport ==
    /\ job = "flag" /\ pc = "flag" /\ cursor > Len(updates)
    /\ pc' = "done"
    /\ UNCHANGED <<retries, job, newEmployee, ledger, result, pgRows, tz, airtableRecords, updates,
                   cursor, successCount, errors, writes, matched, pass, rate>>

NextFlag ==
    \/ fetchAirtableRecords
    \/ FlagDetect
    \/ FlagUpdate
    \/ FlagReport

SpecFlag == InitFlag /\ [][NextFlag]_vars

\* Every fetch attempt settles: the turn of the loop that is due is taken
SpecFlagFair == SpecFlag /\ WF_vars(fetchAirtableRecords)

----------------------------------------------------------------------------
(* Both duplicate passes *)

InitDuplicatePasses == InitDup \/ InitFlag

NextDuplicatePasses == NextDup \/ NextFlag

SpecDuplicatePasses == InitDuplicatePasses /\ [][NextDuplicatePasses]_vars

----------------------------------------------------------------------------
(* roles.js: syncEmployeeData *)

\* The ranked query keeps one row per full name, active or not, ordered by id
RolesRowSeqs(z) ==
    {rows \in EmpRowSeqs(z) : \A i, j \in 1..Len(rows) : i # j => rows[i].name # rows[j].name}

\* The keys the reduce files a row under
RolesKeys(emp) ==
    {NatToString(emp.employee_id)}
        \cup (IF Truthy(emp.email) THEN {toLowerCase(emp.email)} ELSE {})
        \cup (IF Truthy(emp.mobile_phone) THEN {standardizePhoneNumber(emp.mobile_phone)} ELSE {})

\* pgEmployeeMap[key] of the reduce: the last row filed under the key, 0 if none
RolesEmployeeMap(rows, key) ==
    LET filed == {i \in 1..Len(rows) : key \in RolesKeys(rows[i])}
    IN  IF filed = {} THEN 0 ELSE CHOOSE i \in filed : \A j \in filed : j <= i

RolesMatchIndex(rows, fields) ==
    LET byId == IF Truthy(fields["RSC Emp ID"])
                THEN RolesEmployeeMap(rows, fields["RSC Emp ID"]) ELSE 0
        byEmail == IF byId = 0 /\ Truthy(fields["Email"])
                   THEN RolesEmployeeMap(rows, toLowerCase(fields["Email"])) ELSE byId
    IN  IF byEmail = 0 /\ Truthy(fields["Phone"])
        THEN RolesEmployeeMap(rows, standardizePhoneNumber(fields["Phone"])) ELSE byEmail

\* formatDateToString of a Date: MM/DD/YYYY from the UTC getters
formatDateToString(date) == IF ~date.valid THEN <<>> ELSE UsDate(date.time \div 24)

\* formatDateToString of a ledger value: new Date(string), then the same
formatFieldToString(s, z) == IF ~Truthy(s) THEN <<>> ELSE formatDateToString(NewDate(s, z))

RolesUpdateFields(fields, pgMatch, z) ==
    LET pgDate == formatDateToString(pgMatch.hire_date)
        airtableDate == formatFieldToString(fields["RSC Hire Date"], z)
    IN  StatusUpdates(fields, pgMatch.active)
            @@ (IF fields["Name"] # pgMatch.name THEN ("Name" :> pgMatch.name) ELSE EmptyFields)
            @@ (IF pgMatch.hire_date.valid /\ pgDate # airtableDate
                THEN ("RSC Hire Date" :> pgDate) ELSE EmptyFields)

\* The loop over the ledger snapshot from record i on: the updates it pushes
RECURSIVE RolesPlans(_, _, _, _)
RolesPlans(records, rows, z, i) ==
    IF i > Len(records) THEN <<>>
    ELSE LET m == RolesMatchIndex(rows, records[i].fields)
             updateFields == RolesUpdateFields(records[i].fields, rows[m], z)
         IN  IF m # 0 /\ DOMAIN updateFields # {}
             THEN <<[recordId |-> records[i].id, fields |-> updateFields]>>
                      \o RolesPlans(records, rows, z, i + 1)
             ELSE RolesPlans(records, rows, z, i + 1)

InitRoles ==
    /\ job = "rolesEmployees"
    /\ pc = "loadSource"
    /\ newEmployee = NoEmployee
    /\ result = NoResult
    /\ tz \in TimeZones
    /\ pgRows \in RolesRowSeqs(tz)
    /\ ledger \in {AsRecords(fs) : fs \in SeqsUpTo(EmpLedgerFields, MaxEmpRecords)}
    /\ airtableRecords = <<>>
    /\ updates = <<>>
    /\ cursor = 0
    /\ successCount = 0
    /\ errors = <<>>
    /\ writes = <<>>
    /\ matched = {}
    /\ pass = 1
    /\ rate = NoRate
    /\ retries = 0

\* pool.query: the rows, or it raises and the catch of syncEmployeeData returns false
RolesLoadSource ==
    /\ job = "rolesEmployees" /\ pc = "loadSource"
    /\ \/ pc' = "loadLedger"
       \/ pc' = "returnedFalse"
    /\ UNCHANGED <<retries, job, newEmployee, ledger, result, pgRows, tz, airtableRecords,
                   updates, cursor, successCount, errors, writes, matched, pass, rate>>

\* base(AIRTABLE_TABLE).select(...).all(): the records, or the same catch
RolesLoadLedger ==
    /\ job = "rolesEmployees" /\ pc = "loadLedger"
    /\ \/ pc' = "match" /\ airtableRecords' = ledger
       \/ pc' = "returnedFalse" /\ UNCHANGED airtableRecords
    /\ UNCHANGED <<retries, job, newEmployee, ledger, result, pgRows, tz, updates,
                   cursor, successCount, errors, writes, matched, pass, rate>>

RolesMatch ==
    /\ job = "rolesEmployees" /\ pc = "match"
    /\ updates' = RolesPlans(airtableRecords, pgRows, tz, 1)
    /\ cursor' = 1
    /\ pc' = "apply"
    /\ UNCHANGED <<retries, job, newEmployee, ledger, result, pgRows, tz, airtableRecords,
                   successCount, errors, writes, matched, pass, rate>>

\* One turn of the update loop: sleep(250) follows a write that succeeded
RolesApply ==
    /\ job = "rolesEmployees" /\ pc = "apply" /\ cursor <= Len(updates)
    /\ LET update == updates[cursor]
       IN  \/ /\ ledger' = StoreUpdate(ledger, update.recordId, update.fields)
              /\ writes' = Append(writes, WriteCall(update.recordId, update.fields, TRUE))
              /\ successCount' = successCount + 1
              /\ rate' = Paced(rate, FALSE, TRUE)
              /\ UNCHANGED errors
           \/ /\ writes' = Append(writes, WriteCall(update.recordId, update.fields, FALSE))
              /\ errors' = Append(errors, update.recordId)
              /\ rate' = Paced(rate, FALSE, FALSE)
              /\ UNCHANGED <<ledger, successCount>>
    /\ cursor' = cursor + 1
    /\ UNCHANGED <<retries, job, pc, newEmployee, result, pgRows, tz, airtableRecords, updates,
                   matched, pass>>

\* The summary and return true
RolesReport ==
    /\ job = "rolesEmployees" /\ pc = "apply" /\ cursor > Len(updates)
    /\ pc' = "done"
    /\ UNCHANGED <<retries, job, newEmployee, ledger, result, pgRows, tz, airtableRecords,
                   updates, cursor, successCount, errors, writes, matched, pass, rate>>

NextRoles ==
    \/ RolesLoadSource
    \/ RolesLoadLedger
    \/ RolesMatch
    \/ RolesApply
    \/ RolesReport

SpecRoles == InitRoles /\ [][NextRoles]_vars

----------------------------------------------------------------------------
(* determinePreferredRecord, in employee-sync and in roles.js *)

MaxGroup == 3

PreferRows ==
    [active : BOOLEAN, updated_at : {NullDate, DateAt(1), DateAt(2)},
     created_at : {DateAt(1), DateAt(3)}]

\* The comparator of roles.js is negative: a goes in front of b
RolesBefore(a, b) ==
    \/ a.active /\ ~b.active
    \/ (a.active = b.active /\ a.created_at.time > b.created_at.time)

RECURSIVE InsertByRoles(_, _, _)
InsertByRoles(rows, sorted, i) ==
    IF sorted = <<>> THEN <<i>>
    ELSE IF RolesBefore(rows[i], rows[Head(sorted)]) THEN <<i>> \o sorted
    ELSE <<Head(sorted)>> \o InsertByRoles(rows, Tail(sorted), i)

RECURSIVE SortByRoles(_, _)
SortByRoles(rows, positions) ==
    IF positions = <<>> THEN <<>>
    ELSE InsertByRoles(rows,
                       SortByRoles(rows, SubSeq(positions, 1, Len(positions) - 1)),
                       positions[Len(positions)])

\* determinePreferredRecord of roles.js: records.sort(...)[0]
determinePreferredRecordRoles(rows, group) == SortByRoles(rows, InOrder(rows, group))[1]

NoPreferred == [preferred |-> 0]

InitPrefer ==
    /\ job = "prefer"
    /\ pc = "call"
    /\ newEmployee = NoEmployee
    /\ ledger = <<>>
    /\ result = NoPreferred
    /\ pgRows \in SeqsUpTo(PreferRows, MaxGroup) \ {<<>>}
    /\ tz = 0
    /\ airtableRecords = <<>>
    /\ updates = <<>>
    /\ cursor = 0
    /\ successCount = 0
    /\ errors = <<>>
    /\ writes = <<>>
    /\ matched = {}
    /\ pass = 0
    /\ rate = NoRate
    /\ retries = 0

PreferEmployeeSync ==
    /\ job = "prefer" /\ pc = "call"
    /\ result' = [preferred |-> determinePreferredRecord(pgRows, 1..Len(pgRows))]
    /\ pc' = "returned"
    /\ UNCHANGED <<retries, job, newEmployee, ledger, pgRows, tz, airtableRecords, updates,
                   cursor, successCount, errors, writes, matched, pass, rate>>

PreferRoles ==
    /\ job = "prefer" /\ pc = "call"
    /\ result' = [preferred |-> determinePreferredRecordRoles(pgRows, 1..Len(pgRows))]
    /\ pc' = "returnedRoles"
    /\ UNCHANGED <<retries, job, newEmployee, ledger, pgRows, tz, airtableRecords, updates,
                   cursor, successCount, errors, writes, matched, pass, rate>>

NextPrefer ==
    \/ PreferEmployeeSync
    \/ PreferRoles

SpecPrefer == InitPrefer /\ [][NextPrefer]_vars

----------------------------------------------------------------------------
(* guard-cards.js: syncPostgresToAirtable over a ledger that holds an employee *)
(* id twice *)

\* Two records, both carrying 'RSC Emp ID' 1
TwinLedgers ==
    {AsRecords(<<a, b>>) :
        a \in {f \in GuardLedgerFields : f["RSC Emp ID"] = <<"1">>},
        b \in {f \in GuardLedgerFields : f["RSC Emp ID"] = <<"1">>}}

InitGuardTwins ==
    /\ job = "guard"
    /\ pc = "loadSource"
    /\ newEmployee = NoEmployee
    /\ result = NoResult
    /\ tz \in TimeZones
    /\ pgRows \in GuardRowSeqs(tz)
    /\ ledger \in TwinLedgers
    /\ airtableRecords = <<>>
    /\ updates = <<>>
    /\ cursor = 0
    /\ successCount = 0
    /\ errors = <<>>
    /\ writes = <<>>
    /\ matched = {}
    /\ pass = 1
    /\ rate = NoRate
    /\ retries = 0

SpecGuardTwins == InitGuardTwins /\ [][NextGuard]_vars

----------------------------------------------------------------------------
(* formatters: standardizePhoneNumber and getTenantState as called functions *)

MaxPhoneLen == 3
MaxTenantId == 14

PhoneChars == {"1", "2", "-"}

PhoneArgs ==
    SeqsUpTo(PhoneChars, MaxPhoneLen)
        \cup {Null, Undefined, PhoneNoDigitsA, PhoneLocal, PhoneIntl}

\* A tenant id as the caller passes it: a number, a string, null or undefined
JsNull == [type |-> "null", value |-> <<>>]
JsUndefined == [type |-> "undefined", value |-> <<>>]
JsNumber(n) == [type |-> "number", value |-> NatToString(n)]
JsString(s) == [type |-> "string", value |-> s]

Constructor == <<"c", "o", "n", "s", "t", "r", "u", "c", "t", "o", "r">>

TenantArgs ==
    {JsNull, JsUndefined, JsString(<<>>), JsString(Constructor)}
        \cup {JsNumber(n) : n \in 0..MaxTenantId}
        \cup {JsString(NatToString(n)) : n \in 0..MaxTenantId}

Unknown == <<"U", "n", "k", "n", "o", "w", "n">>
TypeError == <<"T", "y", "p", "e", "E", "r", "r", "o", "r">>
InheritedFunction == <<"f", "u", "n", "c", "t", "i", "o", "n">>

\* stateMap[key]: the own properties of the literal, then the members every
\* object literal inherits; undefined for any other key
stateMap(key) ==
    CASE key = <<"2">> -> <<"C", "A">>
      [] key = <<"3">> -> <<"L", "A">>
      [] key = <<"4">> -> <<"G", "A">>
      [] key = <<"5">> -> <<"N", "M">>
      [] key = <<"6">> -> <<"C", "A">>
      [] key = <<"1", "3">> -> <<"U", "K">>
      [] key = Constructor -> InheritedFunction
      [] OTHER -> Undefined

\* The outcome of a call: the value returned, or the error thrown
Returned(v) == [raised |-> FALSE, value |-> v]
Thrown(e) == [raised |-> TRUE, value |-> e]

getTenantState(tenantId) ==
    IF tenantId.type \in {"null", "undefined"} THEN Thrown(TypeError)
    ELSE LET mapped == stateMap(tenantId.value)
         IN  Returned(IF Truthy(mapped) THEN mapped ELSE Unknown)

NotCalled == <<"not called">>
NoPhoneResult == [once |-> NotCalled, twice |-> NotCalled]

InitFormatters ==
    /\ job = "formatters"
    /\ \/ pc = "phone" /\ newEmployee \in {[arg |-> p] : p \in PhoneArgs}
                       /\ result = NoPhoneResult
       \/ pc = "tenant" /\ newEmployee \in {[arg |-> t] : t \in TenantArgs}
                        /\ result = Returned(NotCalled)
    /\ ledger = <<>>
    /\ pgRows = <<>>
    /\ tz = 0
    /\ airtableRecords = <<>>
    /\ updates = <<>>
    /\ cursor = 0
    /\ successCount = 0
    /\ errors = <<>>
    /\ writes = <<>>
    /\ matched = {}
    /\ pass = 0
    /\ rate = NoRate
    /\ retries = 0

CallStandardizePhoneNumber ==
    /\ job = "formatters" /\ pc = "phone"
    /\ result' = [result EXCEPT !.once = standardizePhoneNumber(newEmployee.arg)]
    /\ pc' = "standardized"
    /\ UNCHANGED <<retries, job, newEmployee, ledger, pgRows, tz, airtableRecords, updates,
                   cursor, successCount, errors, writes, matched, pass, rate>>

\* The value a first call returned is passed to the function again
CallStandardizePhoneNumberAgain ==
    /\ job = "formatters" /\ pc = "standardized"
    /\ result' = [result EXCEPT !.twice = standardizePhoneNumber(result.once)]
    /\ pc' = "restandardized"
    /\ UNCHANGED <<retries, job, newEmployee, ledger, pgRows, tz, airtableRecords, updates,
                   cursor, successCount, errors, writes, matched, pass, rate>>

CallGetTenantState ==
    /\ job = "formatters" /\ pc = "tenant"
    /\ result' = getTenantState(newEmployee.arg)
    /\ pc' = "tenantReturned"
    /\ UNCHANGED <<retries, job, newEmployee, ledger, pgRows, tz, airtableRecords, updates,
                   cursor, successCount, errors, writes, matched, pass, rate>>

NextFormatters ==
    \/ CallStandardizePhoneNumber
    \/ CallStandardizePhoneNumberAgain
    \/ CallGetTenantState

SpecFormatters == InitFormatters /\ [][NextFormatters]_vars

----------------------------------------------------------------------------
(* employee-sync: syncAllEmployeeData *)

MaxAllRecords == 1

JsTrue == <<"true">>
Pending == [raised |-> FALSE, value |-> <<"pending">>]

\* The steps syncAllEmployeeData has started, in order, and its outcome
AllState(steps, outcome) == [steps |-> steps, outcome |-> outcome]

\* matchAndUpdateEmails and matchAndUpdatePhones of this module: empty bodies
matchAndUpdateEmailsStub == Undefined
matchAndUpdatePhonesStub == Undefined

\* matchAndUpdateContactInfo: the property reads of the logSyncEnd argument raise
\* on a result that is undefined or null; otherwise the two results are returned
matchAndUpdateContactInfo ==
    LET emailResults == matchAndUpdateEmailsStub
        phoneResults == matchAndUpdatePhonesStub
    IN  IF emailResults \in {Null, Undefined} \/ phoneResults \in {Null, Undefined}
        THEN Thrown(TypeError)
        ELSE Returned(<<emailResults, phoneResults>>)

InitAll ==
    /\ job = "employees"
    /\ pc = "probe"
    /\ newEmployee = NoEmployee
    /\ result = AllState(<<"syncEmployeeData">>, Pending)
    /\ tz \in TimeZones
    /\ pgRows \in AddRowSeqs(tz)
    /\ ledger \in {AsRecords(fs) : fs \in SeqsUpTo(EmpLedgerFields, MaxAllRecords)}
    /\ airtableRecords = <<>>
    /\ updates = <<>>
    /\ cursor = 0
    /\ successCount = 0
    /\ errors = <<>>
    /\ writes = <<>>
    /\ matched = {}
    /\ pass = 1
    /\ rate = NoRate
    /\ retries = 0

\* await syncEmployeeData() has returned: addNewEmployees is entered
AllAddNewEmployees ==
    /\ job = "employees" /\ pc = "done"
    /\ job' = "add"
    /\ pc' = "loadSource"
    /\ result' = AllState(Append(result.steps, "addNewEmployees"), Pending)
    /\ airtableRecords' = <<>>
    /\ updates' = <<>>
    /\ cursor' = 0
    /\ successCount' = 0
    /\ errors' = <<>>
    /\ matched' = {}
    /\ UNCHANGED <<retries, newEmployee, ledger, pgRows, tz, writes, pass, rate>>

\* await addNewEmployees() has returned: matchAndUpdateContactInfo runs, and
\* syncAllEmployeeData returns true or rethrows what it raised
AllMatchAndUpdateContactInfo ==
    /\ job = "add" /\ pc = "done"
    /\ job' = "contact"
    /\ LET steps == Append(result.steps, "matchAndUpdateContactInfo")
           contact == matchAndUpdateContactInfo
       IN  IF contact.raised
           THEN pc' = "raised" /\ result' = AllState(steps, contact)
           ELSE pc' = "returned" /\ result' = AllState(steps, Returned(JsTrue))
    /\ UNCHANGED <<retries, newEmployee, ledger, pgRows, tz, airtableRecords, updates,
                   cursor, successCount, errors, writes, matched, pass, rate>>

\* A step raised (a load failed): tryCatch reports the error and rethrows it
AllRethrow ==
    /\ job \in {"employees", "add"} /\ pc \in {"loadFailed", "failed"}
    /\ pc' = "raised"
    /\ result' = AllState(result.steps, Thrown(<<"E", "r", "r", "o", "r">>))
    /\ UNCHANGED <<retries, job, newEmployee, ledger, pgRows, tz, airtableRecords, updates,
                   cursor, successCount, errors, writes, matched, pass, rate>>

NextAll ==
    \/ NextEmp
    \/ NextAdd
    \/ AllAddNewEmployees
    \/ AllMatchAndUpdateContactInfo
    \/ AllRethrow

SpecAll == InitAll /\ [][NextAll]_vars

----------------------------------------------------------------------------
(* index.js: runAllSyncProcesses and the exit status of the process *)

MaxChanges == 1

JsFalse == <<"false">>
JsObject == <<"object">>

JsBool(b) == IF b THEN JsTrue ELSE JsFalse

\* The truthiness of a value: false, undefined, null and '' are falsy
IsTruthy(v) == Truthy(v) /\ v # JsFalse

RunOrder ==
    <<"employeeSync", "guardCardSync", "rolesSync", "trainingSync", "duplicateDetection">>

RunSteps == {RunOrder[i] : i \in 1..Len(RunOrder)}

\* How the body of a sync went: an error was raised inside it, or it ran to its
\* end having made this many successful updates and creates
SyncOutcomes ==
    {[raised |-> TRUE, changes |-> 0]}
        \cup {[raised |-> FALSE, changes |-> n] : n \in 0..MaxChanges}

NotRun == [raised |-> FALSE, changes |-> -1]

NoExit == -1

RunStarting ==
    [connected |-> FALSE,
     started |-> <<>>,
     outcomes |-> [s \in RunSteps |-> NotRun],
     caught |-> {},
     results |-> [s \in RunSteps |-> JsFalse],
     report |-> [s \in RunSteps |-> "none"],
     exit |-> NoExit]

\* The step entered after the try block of step name
Following(name) ==
    CASE name = "employeeSync" -> "guardCardSync"
      [] name = "guardCardSync" -> "rolesSync"
      [] name = "rolesSync" -> "trainingSync"
      [] name = "trainingSync" -> "duplicateDetection"
      [] name = "duplicateDetection" -> "summary"

\* A runner without the try block around each sync: an error ends the run
AbortAfter(name, thrown) == IF thrown THEN "exited" ELSE Following(name)

\* catch (error) { handleError(error, ...) }: the next try block is entered
ContinueAfter(name, thrown) == Following(name)

\* results.name = await sync(): the assignment is skipped when the call throws
AfterSync(r, name, outcome, thrown, value) ==
    [r EXCEPT !.started = Append(@, name),
              !.outcomes[name] = outcome,
              !.caught = IF thrown THEN @ \cup {name} ELSE @,
              !.results[name] = IF thrown THEN @ ELSE value]

InitRun ==
    /\ job = "run"
    /\ pc = "connect"
    /\ newEmployee = NoEmployee
    /\ ledger = <<>>
    /\ result = RunStarting
    /\ pgRows = <<>>
    /\ tz = 0
    /\ airtableRecords = <<>>
    /\ updates = <<>>
    /\ cursor = 0
    /\ successCount = 0
    /\ errors = <<>>
    /\ writes = <<>>
    /\ matched = {}
    /\ pass = 0
    /\ rate = NoRate
    /\ retries = 0

\* testConnections returns true or throws; a throw is rethrown by tryCatch and
\* reaches the catch of the caller, which exits with status 1
RunTestConnections ==
    /\ job = "run" /\ pc = "connect"
    /\ \/ pc' = "employeeSync" /\ result' = [result EXCEPT !.connected = TRUE]
       \/ pc' = "exited" /\ result' = [result EXCEPT !.exit = 1]
    /\ UNCHANGED <<retries, job, newEmployee, ledger, pgRows, tz, airtableRecords, updates,
                   cursor, successCount, errors, writes, matched, pass, rate>>

\* syncAllEmployeeData: true, or the error of a step rethrown by tryCatch
RunEmployeeSync ==
    /\ job = "run" /\ pc = "employeeSync"
    /\ \E outcome \in SyncOutcomes :
           LET thrown == outcome.raised \/ matchAndUpdateContactInfo.raised
           IN  /\ result' = AfterSync(result, "employeeSync",
                                      [outcome EXCEPT !.raised = thrown], thrown, JsTrue)
               /\ pc' = ContinueAfter("employeeSync", thrown)
    /\ UNCHANGED <<retries, job, newEmployee, ledger, pgRows, tz, airtableRecords, updates,
                   cursor, successCount, errors, writes, matched, pass, rate>>

\* syncGuardCards: updateSuccessCount > 0 || createSuccessCount > 0
RunGuardCardSync ==
    /\ job = "run" /\ pc = "guardCardSync"
    /\ \E outcome \in SyncOutcomes :
           /\ result' = AfterSync(result, "guardCardSync", outcome, outcome.raised,
                                  JsBool(outcome.changes > 0))
           /\ pc' = ContinueAfter("guardCardSync", outcome.raised)
    /\ UNCHANGED <<retries, job, newEmployee, ledger, pgRows, tz, airtableRecords, updates,
                   cursor, successCount, errors, writes, matched, pass, rate>>

\* syncEmployeeRoles: its own catch returns { success: false, error }, and the
\* end of its try block is reached without a return statement
RunRolesSync ==
    /\ job = "run" /\ pc = "rolesSync"
    /\ \E outcome \in SyncOutcomes :
           /\ result' = AfterSync(result, "rolesSync", outcome, FALSE,
                                  IF outcome.raised THEN JsObject ELSE Undefined)
           /\ pc' = ContinueAfter("rolesSync", FALSE)
    /\ UNCHANGED <<retries, job, newEmployee, ledger, pgRows, tz, airtableRecords, updates,
                   cursor, successCount, errors, writes, matched, pass, rate>>

\* syncTrainingData: updateSuccessCount > 0 || createSuccessCount > 0
RunTrainingSync ==
    /\ job = "run" /\ pc = "trainingSync"
    /\ \E outcome \in SyncOutcomes :
           /\ result' = AfterSync(result, "trainingSync", outcome, outcome.raised,
                                  JsBool(outcome.changes > 0))
           /\ pc' = ContinueAfter("trainingSync", outcome.raised)
    /\ UNCHANGED <<retries, job, newEmployee, ledger, pgRows, tz, airtableRecords, updates,
                   cursor, successCount, errors, writes, matched, pass, rate>>

\* detectDuplicates: updateSuccessCount > 0
RunDuplicateDetection ==
    /\ job = "run" /\ pc = "duplicateDetection"
    /\ \E outcome \in SyncOutcomes :
           /\ result' = AfterSync(result, "duplicateDetection", outcome, outcome.raised,
                                  JsBool(outcome.changes > 0))
           /\ pc' = ContinueAfter("duplicateDetection", outcome.raised)
    /\ UNCHANGED <<retries, job, newEmployee, ledger, pgRows, tz, airtableRecords, updates,
                   cursor, successCount, errors, writes, matched, pass, rate>>

\* logSyncEnd, return results, and the exit of the caller:
\* Object.values(results).every(result => result) ? 0 : 1
RunSummaryAndExit ==
    /\ job = "run" /\ pc = "summary"
    /\ result' = [result EXCEPT
           !.report = [s \in RunSteps |->
                          IF IsTruthy(result.results[s]) THEN "Success" ELSE "Failed"],
           !.exit = IF \A s \in RunSteps : IsTruthy(result.results[s]) THEN 0 ELSE 1]
    /\ pc' = "exited"
    /\ UNCHANGED <<retries, job, newEmployee, ledger, pgRows, tz, airtableRecords, updates,
                   cursor, successCount, errors, writes, matched, pass, rate>>

NextRun ==
    \/ RunTestConnections
    \/ RunEmployeeSync
    \/ RunGuardCardSync
    \/ RunRolesSync
    \/ RunTrainingSync
    \/ RunDuplicateDetection
    \/ RunSummaryAndExit

SpecRun == InitRun /\ [][NextRun]_vars

----------------------------------------------------------------------------
(* guard-cards.js: syncGuardCards *)

MaxCardRows == 1
MaxCardRecords == 1

\* new Date() while the pass runs: noon UTC of 2025-01-05
NowHour == 132

\* The ranked card of employee k: one row per employee
CardRow(id, number, expDay, active, z) ==
    [employee_id |-> id,
     card_number |-> number,
     issue_date |-> NullDate,
     expiration_date |-> (IF expDay = 0 THEN NullDate ELSE PgDate(expDay, z)),
     active |-> active]

CardRowSeqs(z) ==
    {[k \in 1..Len(c) |-> CardRow(k, c[k][1], c[k][2], c[k][3], z)] :
        c \in SeqsUpTo({CardA, Null} \X {0, 3, 7} \X BOOLEAN, MaxCardRows)}

CardFields(empId, number, expDate, issueDate, status) ==
    ("RSC Emp ID" :> empId) @@ ("Guard Card Number" :> number)
        @@ ("Expiration Date" :> expDate) @@ ("Issue Date" :> issueDate)
        @@ ("Status" :> status)

CardLedgerFields ==
    {CardFields(i, c[1], c[2], Undefined, st) :
        i \in {Undefined, <<"1">>},
        c \in {<<CardA, IsoDate(7)>>, <<CardB, IsoDate(3)>>, <<CardA, Undefined>>},
        st \in {Active, Inactive, Undefined}}

\* airtableMap[employeeId]: the position of the last record stored under the id
airtableMap(records, employeeId) ==
    LET hits == {i \in 1..Len(records) :
                    /\ Truthy(records[i].fields["RSC Emp ID"])
                    /\ records[i].fields["RSC Emp ID"] = employeeId}
    IN  IF hits = {} THEN 0 ELSE CHOOSE i \in hits : \A j \in hits : j <= i

\* formatDate of a ledger field: null for a blank field
formatFieldDate(value, z) ==
    IF Truthy(value) THEN formatDate(NewDate(value, z), z) ELSE Null

\* guardCard.active && new Date(guardCard.expiration_date) > new Date()
shouldBeActive(guardCard) ==
    /\ guardCard.active
    /\ guardCard.expiration_date.valid
    /\ guardCard.expiration_date.time > NowHour

desiredStatus(guardCard) == IF shouldBeActive(guardCard) THEN Active ELSE Inactive

CardUpdateFields(fields, guardCard, z) ==
    LET pgExpirationDate == formatDate(guardCard.expiration_date, z)
        pgIssueDate == formatDate(guardCard.issue_date, z)
    IN  (IF Truthy(guardCard.card_number)
                /\ fields["Guard Card Number"] # guardCard.card_number
         THEN ("Guard Card Number" :> guardCard.card_number) ELSE EmptyFields)
            @@ (IF guardCard.expiration_date.valid
                    /\ pgExpirationDate # formatFieldDate(fields["Expiration Date"], z)
                THEN ("Expiration Date" :> pgExpirationDate) ELSE EmptyFields)
            @@ (IF guardCard.issue_date.valid
                    /\ pgIssueDate # formatFieldDate(fields["Issue Date"], z)
                THEN ("Issue Date" :> pgIssueDate) ELSE EmptyFields)
            @@ (IF fields["Status"] # desiredStatus(guardCard)
                THEN ("Status" :> desiredStatus(guardCard)) ELSE EmptyFields)

\* The record a card creates when no ledger record carries its employee id
CardNewRecord(guardCard, z) ==
    CardFields(NatToString(guardCard.employee_id),
               OrEmpty(guardCard.card_number),
               OrEmpty(formatDate(guardCard.expiration_date, z)),
               OrEmpty(formatDate(guardCard.issue_date, z)),
               Active)

\* The loop over pgGuardCards from card k on: the updates it pushes
RECURSIVE CardUpdates(_, _, _, _)
CardUpdates(records, rows, z, k) ==
    IF k > Len(rows) THEN <<>>
    ELSE LET pos == airtableMap(records, NatToString(rows[k].employee_id))
             updateFields == CardUpdateFields(records[pos].fields, rows[k], z)
         IN  IF pos # 0 /\ DOMAIN updateFields # {} /\ validateUpdateFields(updateFields)
             THEN <<[airtableId |-> records[pos].id, fields |-> updateFields]>>
                      \o CardUpdates(records, rows, z, k + 1)
             ELSE CardUpdates(records, rows, z, k + 1)

\* The same loop: the new records it pushes
RECURSIVE CardNewRecords(_, _, _, _)
CardNewRecords(records, rows, z, k) ==
    IF k > Len(rows) THEN <<>>
    ELSE IF airtableMap(records, NatToString(rows[k].employee_id)) = 0
            /\ shouldBeActive(rows[k])
    THEN <<CardNewRecord(rows[k], z)>> \o CardNewRecords(records, rows, z, k + 1)
    ELSE CardNewRecords(records, rows, z, k + 1)

NoNewRecords == [newRecords |-> <<>>, created |-> 0]

InitCards ==
    /\ job = "cards"
    /\ pc = "loadSource"
    /\ newEmployee = NoEmployee
    /\ result = NoNewRecords
    /\ tz \in TimeZones
    /\ pgRows \in CardRowSeqs(tz)
    /\ ledger \in {AsRecords(fs) : fs \in SeqsUpTo(CardLedgerFields, MaxCardRecords)}
    /\ airtableRecords = <<>>
    /\ updates = <<>>
    /\ cursor = 0
    /\ successCount = 0
    /\ errors = <<>>
    /\ writes = <<>>
    /\ matched = {}
    /\ pass = 1
    /\ rate = NoRate
    /\ retries = 0

\* getGuardCardsFromPostgres: the rows, or it raises and tryCatch rethrows
CardsLoadSource ==
    /\ job = "cards" /\ pc = "loadSource"
    /\ \/ pc' = "loadLedger"
       \/ pc' = "loadFailed"
    /\ UNCHANGED <<retries, job, newEmployee, ledger, result, pgRows, tz, airtableRecords, updates,
                   cursor, successCount, errors, writes, matched, pass, rate>>

CardsLoadLedger ==
    /\ job = "cards" /\ pc = "loadLedger"
    /\ \/ pc' = "plan" /\ airtableRecords' = ledger
       \/ pc' = "loadFailed" /\ UNCHANGED airtableRecords
    /\ UNCHANGED <<retries, job, newEmployee, ledger, result, pgRows, tz, updates,
                   cursor, successCount, errors, writes, matched, pass, rate>>

\* Steps 3 and 4: the lookup map, then the updates and the new records
CardsPlan ==
    /\ job = "cards" /\ pc = "plan"
    /\ updates' = CardUpdates(airtableRecords, pgRows, tz, 1)
    /\ result' = [newRecords |-> CardNewRecords(airtableRecords, pgRows, tz, 1), created |-> 0]
    /\ matched' = {[pos |-> airtableMap(airtableRecords, NatToString(pgRows[k].employee_id)),
                    sourceId |-> pgRows[k].employee_id] :
                        k \in {n \in 1..Len(pgRows) :
                                  airtableMap(airtableRecords,
                                              NatToString(pgRows[n].employee_id)) # 0}}
    /\ cursor' = 1
    /\ pc' = "update"
    /\ UNCHANGED <<retries, job, newEmployee, ledger, pgRows, tz, airtableRecords,
                   successCount, errors, writes, pass, rate>>

\* Step 5, one turn of the update loop
CardsUpdate ==
    /\ job = "cards" /\ pc = "update" /\ cursor <= Len(updates)
    /\ LET update == updates[cursor]
       IN  \/ /\ ledger' = StoreUpdate(ledger, update.airtableId, update.fields)
              /\ writes' = Append(writes, WriteCall(update.airtableId, update.fields, TRUE))
              /\ successCount' = successCount + 1
              /\ rate' = Paced(rate, FALSE, TRUE)
              /\ UNCHANGED errors
           \/ /\ writes' = Append(writes, WriteCall(update.airtableId, update.fields, FALSE))
              /\ errors' = Append(errors, update.airtableId)
              /\ rate' = Paced(rate, FALSE, FALSE)
              /\ UNCHANGED <<ledger, successCount>>
    /\ cursor' = cursor + 1
    /\ UNCHANGED <<retries, job, pc, newEmployee, result, pgRows, tz, airtableRecords, updates,
                   matched, pass>>

\* Step 6, one turn of the create loop, entered when the update loop has ended
CardsCreate ==
    /\ job = "cards" /\ pc = "update" /\ cursor > Len(updates)
    /\ result.created < Len(result.newRecords)
    /\ LET newRecord == result.newRecords[result.created + 1]
       IN  \/ /\ ledger' = StoreCreate(ledger, newRecord)
              /\ writes' = Append(writes, CreateCall(newRecord, TRUE))
              /\ successCount' = successCount + 1
              /\ rate' = Paced(rate, FALSE, TRUE)
              /\ UNCHANGED errors
           \/ /\ writes' = Append(writes, CreateCall(newRecord, FALSE))
              /\ errors' = Append(errors, "create")
              /\ rate' = Paced(rate, FALSE, FALSE)
              /\ UNCHANGED <<ledger, successCount>>
    /\ result' = [result EXCEPT !.created = @ + 1]
    /\ UNCHANGED <<retries, job, pc, newEmployee, pgRows, tz, airtableRecords, updates,
                   cursor, matched, pass>>

\* Steps 7 and 8: the reports, and return updateSuccessCount > 0 || createSuccessCount > 0
CardsReport ==
    /\ job = "cards" /\ pc = "update" /\ cursor > Len(updates)
    /\ result.created = Len(result.newRecords)
    /\ pc' = "done"
    /\ UNCHANGED <<retries, job, newEmployee, ledger, result, pgRows, tz, airtableRecords, updates,
                   cursor, successCount, errors, writes, matched, pass, rate>>

NextCards ==
    \/ CardsLoadSource
    \/ CardsLoadLedger
    \/ CardsPlan
    \/ CardsUpdate
    \/ CardsCreate
    \/ CardsReport

SpecCards == InitCards /\ [][NextCards]_vars

----------------------------------------------------------------------------
(* employee-sync: syncEmployeeData over a ledger whose 'RSC Emp ID' values *)
(* include the digits of a source phone number                             *)

\* An 'RSC Emp ID' that reads as the ten digits of PhoneLocal
PhoneLikeId == standardizePhoneNumber(PhoneLocal)

PhoneLikeLedgerFields ==
    {EmployeeFields(key, Undefined, Undefined, rest[1], rest[2], rest[3], rest[4]) :
        key \in {<<"1">>, <<"2">>, PhoneLikeId},
        rest \in {<<Active, Hired, NameUpper, IsoDate(5)>>,
                  <<Inactive, Separated, NameUpper, IsoDate(5)>>,
                  <<Active, Separated, Undefined, Undefined>>}}

InitEmpPhoneLikeIds ==
    /\ job = "employees"
    /\ pc = "probe"
    /\ newEmployee = NoEmployee
    /\ result = NoResult
    /\ tz \in TimeZones
    /\ pgRows \in EmpRowSeqs(tz)
    /\ ledger \in {AsRecords(fs) : fs \in SeqsUpTo(PhoneLikeLedgerFields, MaxEmpRecords)}
    /\ airtableRecords = <<>>
    /\ updates = <<>>
    /\ cursor = 0
    /\ successCount = 0
    /\ errors = <<>>
    /\ writes = <<>>
    /\ matched = {}
    /\ pass = 1
    /\ rate = NoRate
    /\ retries = 0

SpecEmpPhoneLikeIds == InitEmpPhoneLikeIds /\ [][NextEmp]_vars

----------------------------------------------------------------------------
(* Both plan-and-apply passes over the employee table *)

InitSync == InitEmp \/ InitGuard

NextSync == NextEmp \/ NextGuard

SpecSync == InitSync /\ [][NextSync]_vars

----------------------------------------------------------------------------
(* Claims about the apply phase and the plans of a pass *)

Planned == pc \in {"apply", "done"}

\* C1: every plan of the list is attempted although some writes raise, and the
\* final counts are failed = number of writes that raised and
\* succeeded + failed = number of plans submitted.
C1_FailureIsolationCounts ==
    pc = "done" =>
        /\ Len(WritesOf(pass)) = Len(updates)
        /\ Len(errors) = Len(RaisedOf(pass))
        /\ successCount + Len(errors) = Len(updates)

\* C5: every update call issued to the ledger carries at least one field that
\* has a value to write.
C5_NoEmptyUpdateSent ==
    \A i \in 1..Len(writes) :
        \E k \in DOMAIN writes[i].fields : writes[i].fields[k] # Undefined

\* C7: whenever a matched ledger record's 'RSC Emp ID' is not exactly the source
\* id, the plan generated for that record sets 'RSC Emp ID' to the source id.
C7_IdentityHealed ==
    Planned =>
        \A m \in matched :
            airtableRecords[m.pos].fields["RSC Emp ID"] # NatToString(m.sourceId) =>
                \E j \in 1..Len(updates) :
                    /\ updates[j].airtableId = airtableRecords[m.pos].id
                    /\ "RSC Emp ID" \in DOMAIN EmailUpdateFields(updates[j])
                    /\ EmailUpdateFields(updates[j])["RSC Emp ID"] = NatToString(m.sourceId)

\* C10: after a pass whose submitted writes were all applied, the next pass over
\* the same source data generates no update plan.
C10_SecondPassPlansNothing ==
    (pass = 2 /\ Planned /\ \A i \in 1..Len(writes) : writes[i].pass = 1 => writes[i].ok)
        => updates = <<>>

----------------------------------------------------------------------------
(* Claims about syncEmployeeData *)

RowOf(sourceId) == CHOOSE k \in 1..Len(pgRows) : pgRows[k].employee_id = sourceId

MappedStatus(active) ==
    ("Status-RSPG" :> (IF active THEN Active ELSE Inactive))
        @@ ("Status" :> (IF active THEN Hired ELSE Separated))

C6_StatusHealed ==
    (job = "employees" /\ Planned) =>
        \A m \in matched :
            \A f \in {"Status-RSPG", "Status"} :
                LET record == airtableRecords[m.pos]
                    mapped == MappedStatus(pgRows[RowOf(m.sourceId)].active)[f]
                IN  record.fields[f] # mapped =>
                        \E j \in 1..Len(updates) :
                            /\ updates[j].airtableId = record.id
                            /\ f \in DOMAIN updates[j].fields
                            /\ updates[j].fields[f] = mapped

\* C6 witness: an active source row matched to an Inactive / Separated record
\* that agrees on name and hire date; the only plan holds the two status
\* fields and its write was applied
C6_Witness ==
    /\ job = "employees"
    /\ pc = "done"
    /\ Len(updates) = 1
    /\ DOMAIN updates[1].fields = {"Status-RSPG", "Status"}
    /\ \E m \in matched :
          /\ pgRows[RowOf(m.sourceId)].active
          /\ airtableRecords[m.pos].id = updates[1].airtableId
          /\ airtableRecords[m.pos].fields["Status-RSPG"] = Inactive
          /\ airtableRecords[m.pos].fields["Status"] = Separated
          /\ airtableRecords[m.pos].fields["Name"] = pgRows[RowOf(m.sourceId)].name
          /\ ledger[m.pos].fields["Status-RSPG"] = Active
          /\ ledger[m.pos].fields["Status"] = Hired

----------------------------------------------------------------------------
(* Claims about the guard-card pass and about the content of a plan *)

\* C8: in the guard-card pass, a matched record that holds an expiry date while
\* the source license has none gets an update whose expiry field is an explicit
\* null, also when every other tracked field agrees.
C8_NullExpiryClears ==
    (job = "guard" /\ Planned) =>
        \A m \in matched :
            LET record == airtableRecords[m.pos]
            IN  (~pgRows[RowOf(m.sourceId)].expires_on.valid
                    /\ Truthy(record.fields["GC Exp Date - RSPG"])) =>
                    \E j \in 1..Len(updates) :
                        /\ updates[j].airtableId = record.id
                        /\ updates[j].fields["GC Exp Date - RSPG"] = Null

\* A value as the comparison sees it: blank values are one value, a date is its day
Canon(v) ==
    IF ~Truthy(v) THEN <<>>
    ELSE IF IsUsDate(v) THEN IsoDate(DigitValue(v[5]))
    ELSE v

SnapshotOf(recordId) ==
    airtableRecords[CHOOSE i \in 1..Len(airtableRecords) : airtableRecords[i].id = recordId]

PlanFieldDiffers(plan, f) ==
    Canon(plan.fields[f]) # Canon(SnapshotOf(plan.airtableId).fields[f])

----------------------------------------------------------------------------
(* Claims about the pacing and the repetition of writes *)

\* C11: between any two successive write calls of a pass a rate-limit delay
\* elapses, after a write that raised as well as after one that succeeded.
C11_DelayBetweenWrites == \A i \in 1..Len(rate.gaps) : rate.gaps[i]

----------------------------------------------------------------------------
(* Claims about addNewEmployees *)

\* The source employee a create call was issued for
CreatedFor(call) ==
    CHOOSE k \in 1..Len(pgRows) :
        NatToString(pgRows[k].employee_id) = call.fields["RSC Emp ID"]

\* C13: addNewEmployees issues a create for a source employee only when no
\* record of the ledger it loaded matches that employee under any key kind
\* (employee id, email, phone, name).
C13_CreatesOnlyUnmatched ==
    job = "add" =>
        \A i \in 1..Len(writes) :
            findExistingRecord(pgRows[CreatedFor(writes[i])], airtableRecords).match = NullRecord

----------------------------------------------------------------------------
(* Claims about the duplicate pass *)

Detected == job = "duplicates" /\ pc \in {"flag", "done"}

\* The unflagged records of the loaded ledger that share the email of record i
EmailBucket(i) ==
    {j \in 1..Len(airtableRecords) :
        /\ airtableRecords[j].fields["Potential Duplicate"] # Yes
        /\ Truthy(airtableRecords[j].fields["Email"])
        /\ toLowerCase(airtableRecords[j].fields["Email"])
               = toLowerCase(airtableRecords[i].fields["Email"])}

ActiveIn(bucket) == {j \in bucket : DupActive(airtableRecords[j].fields)}

\* The record ids reported as duplicates of record a by email
ReportedByEmailWith(a) ==
    {result.byEmail[n].recordId :
        n \in {m \in 1..Len(result.byEmail) :
                  result.byEmail[m].duplicateWith.recordId = airtableRecords[a].id}}

\* C14: for a bucket of two or more unflagged records sharing an email of which
\* exactly one is active, the email duplicates name the active record as the
\* one kept and report exactly the other members, whatever the fetch order.
C14_ActiveSurvives ==
    Detected =>
        \A a \in 1..Len(airtableRecords) :
            (/\ a \in EmailBucket(a)
             /\ Cardinality(EmailBucket(a)) >= 2
             /\ ActiveIn(EmailBucket(a)) = {a})
            => /\ ReportedByEmailWith(a)
                      = {airtableRecords[j].id : j \in EmailBucket(a) \ {a}}
               /\ \A n \in 1..Len(result.byEmail) :
                      result.byEmail[n].recordId # airtableRecords[a].id

\* Three records share an email, the active one is fetched last, and the two
\* others have been flagged
C14_Witness ==
    /\ job = "duplicates" /\ pc = "done"
    /\ Len(airtableRecords) = 3
    /\ EmailBucket(3) = {1, 2, 3}
    /\ ActiveIn(EmailBucket(3)) = {3}
    /\ ReportedByEmailWith(3) = {airtableRecords[1].id, airtableRecords[2].id}
    /\ Len(writes) = 2 /\ writes[1].ok /\ writes[2].ok

\* The records the pass designated as the one kept of some group
Survivors ==
    {result.byEmployeeId[n].duplicateWith.recordId : n \in 1..Len(result.byEmployeeId)}
        \cup {result.byEmail[n].duplicateWith.recordId : n \in 1..Len(result.byEmail)}
        \cup {result.byPhone[n].duplicateWith.recordId : n \in 1..Len(result.byPhone)}

\* The records the pass has flagged in the ledger
FlaggedByPass == {writes[n].recordId : n \in {k \in 1..Len(writes) : writes[k].ok}}

\* C25: the record a detectDuplicates pass keeps for a group is not flagged by
\* that pass, also when it belongs to a second group (sharing an email with one
\* record and a phone or an employee id with another).
C25_SurvivorNotFlagged ==
    Detected => Survivors \cap FlaggedByPass = {}

\* The record of the loaded ledger a write was issued to
Target(w) ==
    airtableRecords[CHOOSE i \in 1..Len(airtableRecords) : airtableRecords[i].id = w.recordId]

\* C15: a duplicate pass issues no write to a record that carries 'Yes' in
\* 'Potential Duplicate', neither as loaded nor as this pass has left it, and
\* every write it issues sets that field to 'Yes'.
C15_FlaggedLeftAlone ==
    job \in {"duplicates", "flag"} =>
        \A n \in 1..Len(writes) :
            /\ Target(writes[n]).fields["Potential Duplicate"] # Yes
            /\ \A m \in 1..(n - 1) : writes[m].ok => writes[m].recordId # writes[n].recordId
            /\ writes[n].fields["Potential Duplicate"] = Yes

\* A ledger with a record already flagged and two unflagged records sharing
\* its email: one of the two has been flagged and the pass is over
C15_Witness ==
    /\ job \in {"duplicates", "flag"} /\ pc = "done"
    /\ \E i \in 1..Len(airtableRecords) :
          /\ airtableRecords[i].fields["Potential Duplicate"] = Yes
          /\ \E j, k \in 1..Len(airtableRecords) :
                /\ j # k /\ j \in EmailBucket(j) /\ k \in EmailBucket(j)
                /\ toLowerCase(airtableRecords[i].fields["Email"])
                       = toLowerCase(airtableRecords[j].fields["Email"])
    /\ Len(writes) >= 1 /\ writes[1].ok

----------------------------------------------------------------------------
(* Claims about the outcome of a pass whose loads fail *)

\* A step out of a load that does not lead to the phase after it: the load failed
LoadFails ==
    \/ pc = "loadSource" /\ pc' # "loadLedger"
    \/ pc = "loadLedger" /\ pc' \notin {"match", "filter", "detect"}

\* C16: when the source load or the ledger load of a sync fails, the sync
\* raises to its caller (position "loadFailed"); it does not return a value.
C16_LoadFailureRaises == [][LoadFails => pc' = "loadFailed"]_vars

----------------------------------------------------------------------------
(* Claims about determinePreferredRecord *)

\* The rows the preferred one is chosen among: the active ones if there are any
PreferPool ==
    IF \E i \in 1..Len(pgRows) : pgRows[i].active
    THEN {i \in 1..Len(pgRows) : pgRows[i].active}
    ELSE 1..Len(pgRows)

\* The row is in the pool, no row of the pool is more recent (updated_at, or
\* created_at when updated_at is absent) and no row as recent comes before it
MostRecentFirst(p) ==
    /\ p \in PreferPool
    /\ \A j \in PreferPool :
          \/ Recency(pgRows[p]) > Recency(pgRows[j])
          \/ (Recency(pgRows[p]) = Recency(pgRows[j]) /\ p <= j)

\* C17: for a non-empty group determinePreferredRecord returns an active row if
\* there is one, among those (or among all rows) the one with the greatest
\* updated_at, or created_at when updated_at is absent, and on a tie the first
\* in input order.
C17_PreferredIsMostRecent ==
    (job = "prefer" /\ pc \in {"returned", "returnedRoles"}) => MostRecentFirst(result.preferred)

\* The same of the employee-sync version alone
C17_EmployeeSyncVersion ==
    (job = "prefer" /\ pc = "returned") => MostRecentFirst(result.preferred)

----------------------------------------------------------------------------
(* Claims about the decisions a source entity yields *)

\* The source entities the record of a plan was matched to
SourcesOf(plan) ==
    {m.sourceId : m \in {x \in matched : airtableRecords[x.pos].id = plan.airtableId}}

\* C18: in one pass of syncEmployeeData no two plans, for two different ledger
\* records, come from the same source entity.
C18_OneDecisionPerSource ==
    (job = "employees" /\ Planned) =>
        \A i, j \in 1..Len(updates) :
            i # j => SourcesOf(updates[i]) \cap SourcesOf(updates[j]) = {}

----------------------------------------------------------------------------
(* Claims about the record used for an employee id *)

\* C19: when several ledger records carry the same employee id, the record
\* matched for that id is the first of them in fetch order.
C19_FirstRecordWithIdIsUsed ==
    (job = "guard" /\ pc \in {"apply", "done"}) =>
        \A m \in matched :
            \A j \in 1..(m.pos - 1) :
                airtableRecords[j].fields["RSC Emp ID"] # NatToString(m.sourceId)

----------------------------------------------------------------------------
(* Claims about fetchAirtableRecords *)

\* An attempt succeeds: the call returns what that attempt fetched
FetchReturns == pc = "fetch" /\ pc' = "detect"

\* C20: fetchAirtableRecords terminates. An attempt is made only while fewer
\* than MAX_RETRIES attempts have failed, the first attempt that succeeds ends
\* the call with the records it fetched, the call raises exactly when
\* MAX_RETRIES attempts have failed, and no attempt follows its end.
C20_FetchTerminates ==
    /\ [](job = "flag" =>
             /\ retries <= MAX_RETRIES
             /\ (pc = "fetchFailed" <=> retries = MAX_RETRIES))
    /\ [][FetchReturns =>
             /\ retries < MAX_RETRIES
             /\ retries' = retries
             /\ airtableRecords' = ledger]_vars
    /\ [][pc # "fetch" => retries' = retries]_vars
    /\ <>(pc # "fetch")

\* The third attempt in a row has failed and the call has raised
C20_Witness == job = "flag" /\ pc = "fetchFailed" /\ retries = MAX_RETRIES

----------------------------------------------------------------------------
(* Claims about the formatters *)

\* C21: standardizePhoneNumber applied to its own result returns that result,
\* for every input: null, the empty string and strings without a digit included.
C21_StandardizeIdempotent ==
    (job = "formatters" /\ pc = "restandardized") => result.twice = result.once

\* The digit characters of a phone value in their original order; the empty
\* string for null, undefined and the empty string
DigitsOf(phone) == IF Truthy(phone) THEN SelectSeq(phone, IsDigit) ELSE <<>>

\* C22: standardizePhoneNumber returns exactly the digit characters of its input
\* in their original order, none dropped, and the empty string when the input is
\* empty, null, undefined or holds no digit.
C22_ReturnsAllDigits ==
    (job = "formatters" /\ pc \in {"standardized", "restandardized"})
        => result.once = DigitsOf(newEmployee.arg)

KnownTenants == {<<"2">>, <<"3">>, <<"4">>, <<"5">>, <<"6">>, <<"1", "3">>}

\* C23: getTenantState returns the mapped region code for a known tenant id and
\* 'Unknown' for every other input (empty, null and undefined included), and
\* never raises.
C23_UnknownNeverRaises ==
    (job = "formatters" /\ pc = "tenantReturned")
        => /\ ~result.raised
           /\ newEmployee.arg.type \in {"number", "string"}
                  /\ newEmployee.arg.value \in KnownTenants
                  => result.value = stateMap(newEmployee.arg.value)
           /\ ~(newEmployee.arg.type \in {"number", "string"}
                  /\ newEmployee.arg.value \in KnownTenants)
                  => result.value = Unknown

----------------------------------------------------------------------------
(* Claims about the rendering of source dates *)

\* The calendar day of a DATE column value delivered in a process at offset z
CalendarDay(date, z) == (date.time + z) \div 24

\* The source row a matched ledger record was paired with
SourceOf(m) == pgRows[CHOOSE k \in 1..Len(pgRows) : pgRows[k].employee_id = m.sourceId]

\* C24: the day rendered for a source date when the diff is computed does not
\* depend on the process's time-zone offset: a hire date put into a plan is the
\* source date's own calendar day, the value the ledger holds for that date as a
\* bare YYYY-MM-DD, never the day before or after it.
C24_RenderedDayNotShifted ==
    job = "employees" =>
        \A m \in matched : \A k \in 1..Len(updates) :
            (updates[k].airtableId = airtableRecords[m.pos].id
                /\ "RSC Hire Date" \in DOMAIN updates[k].fields)
            => updates[k].fields["RSC Hire Date"]
                   = IsoDate(CalendarDay(SourceOf(m).hire_date, tz))

----------------------------------------------------------------------------
(* Claims about syncAllEmployeeData *)

AllSteps == <<"syncEmployeeData", "addNewEmployees", "matchAndUpdateContactInfo">>

AllEnded == pc \in {"returned", "raised"} /\ "steps" \in DOMAIN result

\* No load raised (the third step was reached) and no ledger write raised
NoStoreCallFailed ==
    /\ job = "contact"
    /\ \A n \in 1..Len(writes) : writes[n].ok

\* C26: syncAllEmployeeData runs its three steps in order (sync existing
\* records, add new employees, match contact info) and returns true whenever no
\* source-store or ledger call fails.
C26_ThreeStepsThenTrue ==
    (AllEnded /\ NoStoreCallFailed)
        => /\ result.steps = AllSteps
           /\ result.outcome = Returned(JsTrue)

----------------------------------------------------------------------------
(* Claims about runAllSyncProcesses *)

RunExited == job = "run" /\ pc = "exited" /\ result.connected

\* C27: the process exits with status 0 exactly when none of the five syncs
\* raised, and a sync that completed without error having found nothing to
\* update or create is reported as Success.
C27_ExitZeroIffNoneRaised ==
    RunExited =>
        /\ result.exit = 0 <=> (\A s \in RunSteps : ~result.outcomes[s].raised)
        /\ \A s \in RunSteps :
               (~result.outcomes[s].raised /\ result.outcomes[s].changes = 0)
                   => result.report[s] = "Success"

IsPrefix(s, t) == Len(s) <= Len(t) /\ \A i \in 1..Len(s) : s[i] = t[i]

\* C28: once the connection test has passed, the five syncs (employee data,
\* guard cards, roles, training, duplicates) are started once each and in that
\* order, and a sync that raises does not keep the later ones from starting: the
\* syncs started so far are the first ones of that order, and all five have been
\* started when the run ends.
C28_AllFiveStartedInOrder ==
    (job = "run" /\ result.connected) =>
        /\ IsPrefix(result.started, RunOrder)
        /\ pc = "exited" => result.started = RunOrder

\* The guard card sync and the training sync raised, and the run has ended
C28_Witness ==
    /\ RunExited
    /\ {"guardCardSync", "trainingSync"} \subseteq result.caught
    /\ result.started = RunOrder

----------------------------------------------------------------------------
(* Claims about syncGuardCards *)

\* The card a matched ledger record was paired with
CardOf(m) == pgRows[CHOOSE k \in 1..Len(pgRows) : pgRows[k].employee_id = m.sourceId]

\* C29: whenever a matched ledger record's Status differs from the status
\* derived from the source card (Active when the card is active and unexpired,
\* otherwise Inactive), the pass submits an update to that record that sets
\* Status to the derived value.
C29_StatusUpdateSubmitted ==
    (job = "cards" /\ pc = "done") =>
        \A m \in matched :
            airtableRecords[m.pos].fields["Status"] # desiredStatus(CardOf(m))
            => \E n \in 1..Len(writes) :
                   /\ writes[n].recordId = airtableRecords[m.pos].id
                   /\ "Status" \in DOMAIN writes[n].fields
                   /\ writes[n].fields["Status"] = desiredStatus(CardOf(m))

----------------------------------------------------------------------------
(* Claims about the lookup index of syncEmployeeData *)

\* C30: a ledger record that is matched through its 'RSC Emp ID' value is
\* matched to a source employee whose own employee id is that value, never to an
\* employee filed in the index under an email, phone or name that is the same
\* string.
C30_IdLookupReturnsThatId ==
    (job = "employees" /\ pc \in {"apply", "done"}) =>
        \A m \in matched :
            LET fields == airtableRecords[m.pos].fields
            IN  (Truthy(fields["RSC Emp ID"])
                    /\ pgEmployeeMap(pgRows, fields["RSC Emp ID"]) # 0)
                => NatToString(m.sourceId) = fields["RSC Emp ID"]

----------------------------------------------------------------------------
(* Claims about findExistingRecord *)

HasIdCandidate ==
    newEmployee.employee_id # 0 /\ \E i \in 1..Len(ledger) : ById(newEmployee, ledger[i])
HasEmailCandidate ==
    Truthy(newEmployee.email) /\ \E i \in 1..Len(ledger) : ByEmail(newEmployee, ledger[i])
HasPhoneCandidate ==
    Truthy(newEmployee.mobile_phone) /\ \E i \in 1..Len(ledger) : ByPhone(newEmployee, ledger[i])
HasNameCandidate ==
    Truthy(newEmployee.name) /\ \E i \in 1..Len(ledger) : ByName(newEmployee, ledger[i])

\* C3: a match is never made on a key whose normalized value is empty on either
\* side; a source phone and a ledger phone without any digit never match, nor
\* do a blank id, email or name.
C3_NoMatchOnEmptyKey ==
    pc = "returned" =>
        /\ result.matchReason = "Phone" =>
              /\ Truthy(standardizePhoneNumber(newEmployee.mobile_phone))
              /\ Truthy(standardizePhoneNumber(result.match.fields["Phone"]))
        /\ result.matchReason = "Email" =>
              Truthy(newEmployee.email) /\ Truthy(result.match.fields["Email"])
        /\ result.matchReason = "Name" =>
              Truthy(newEmployee.name) /\ Truthy(result.match.fields["Name"])
        /\ result.matchReason = "RSC Emp ID" =>
              newEmployee.employee_id # 0 /\ Truthy(result.match.fields["RSC Emp ID"])

\* C4: the key kinds are tried in the order employee id, email, phone, name and
\* the first kind with a candidate decides; a record carrying the entity's id
\* wins over a record carrying its email wherever the two stand in the list.
C4_KeyPrecedence ==
    pc = "returned" =>
        /\ HasIdCandidate =>
              result.matchReason = "RSC Emp ID" /\ ById(newEmployee, result.match)
        /\ (~HasIdCandidate /\ HasEmailCandidate) =>
              result.matchReason = "Email" /\ ByEmail(newEmployee, result.match)
        /\ (~HasIdCandidate /\ ~HasEmailCandidate /\ HasPhoneCandidate) =>
              result.matchReason = "Phone" /\ ByPhone(newEmployee, result.match)
        /\ (~HasIdCandidate /\ ~HasEmailCandidate /\ ~HasPhoneCandidate /\ HasNameCandidate) =>
              result.matchReason = "Name" /\ ByName(newEmployee, result.match)
        /\ (~HasIdCandidate /\ ~HasEmailCandidate /\ ~HasPhoneCandidate /\ ~HasNameCandidate) =>
              result.match = NullRecord

\* C4 witness: record B (email only) is fetched before record A (id), A is returned
C4_Witness ==
    /\ pc = "returned"
    /\ Len(ledger) = 2
    /\ Truthy(newEmployee.email)
    /\ ByEmail(newEmployee, ledger[1]) /\ ~ById(newEmployee, ledger[1])
    /\ newEmployee.employee_id # 0 /\ ById(newEmployee, ledger[2])
    /\ result.match = ledger[2]
    /\ result.matchReason = "RSC Emp ID"

====
